---- MODULE Spec2Model ----
(***************************************************************************)
(* Model of the bounded worker pool of ParallelClaudeManager               *)
(* (src/scripts/parallel-claude-manager.js).                               *)
(*                                                                         *)
(* The manager runs on one JavaScript event loop.  One action of the model *)
(* is one run-to-completion piece of code: the synchronous part of a call  *)
(* up to its first suspension, the continuation of an await (a microtask), *)
(* or one timer / child-process event callback together with the promise   *)
(* continuations it triggers.  Worker processes are operating-system       *)
(* processes and run in parallel with the event loop.                      *)
(***************************************************************************)
EXTENDS Integers, Sequences, FiniteSets, Bags, TLC

\* Number of tasks (calls of startClaudeProcess) in a run of the model.
NumTasks == 3

\* Total number of stdout/stderr chunks delivered in a run of the model.
MaxChunks == 1

\* The largest options.maxConcurrentProcesses a manager is constructed with
\* in a run of the model.
MaxCapacity == 2

\* The capacities a manager is constructed with.
Capacities == 1..MaxCapacity

Tasks == 1..NumTasks

\* Number of calls of the worktree manager that are in progress, or whose
\* promise is awaited, at the same time.
NumCalls == 2

\* Number of worktree names in a run of the model.
NumNames == 2

\* The largest number of pair comparisons in the list analyzeComparisons is
\* given in a run of the model.
MaxPairs == 2

\* Number of steps into which the range of a score, 0 to 100, is divided for
\* the calls of calculateOverallSimilarity.
Levels == 4

\* The largest number of lines of a stdout given to parseClaudeOutput.
MaxLines == 3

\* Number of ports findAvailablePort probes, which is 100 in the source.
ScanLength == 6

\* The largest options.maxIterations of a validation workflow in a run of
\* the model.
MaxIterations == 3

\* The largest options.maxCorrectionAttempts of a SelfCorrectionAgent in a
\* run of the model.
MaxAttempts == 3

\* The largest number of corrections of a correction plan in a run of the
\* model.
MaxCorrections == 3

\* The largest number of corrections a SelfCorrectionAgent applies to files
\* in a run of the model.
MaxFixes == 3

\* A worktree name: branchPrefix, the variation name and Date.now().  The
\* names of the model belong to one variation name and differ by timestamp.
Names == 1..NumNames

\* The port findAvailablePort starts its scan from.
StartPort == 3000

\* The ports findAvailablePort scans: one more than there are worktrees.
Ports == StartPort..(StartPort + NumNames)

\* What the environment makes of one launch: the worker starts ("ok"), the
\* executable cannot be started and the child emits 'error' ("spawnFail"),
\* spawn() itself throws ("spawnThrow"), or reading the worktree's
\* configuration throws in generateClaudeInstructions ("instrThrow").
Outcomes == {"ok", "spawnFail", "spawnThrow", "instrThrow"}

\* Exit codes a worker chooses when it exits by itself.
OwnExitCodes == {"0", "1"}

\* The code of the 'close' event: the worker's own, null when the signal
\* terminated it, a negative errno after a failed spawn.
CloseCodes(state) ==
    IF state = "errored" THEN {"errno"}
    ELSE IF state = "termPending" THEN OwnExitCodes \cup {"null"}
    ELSE OwnExitCodes

\* Kinds of output chunk: a stdout chunk holding an "Error:" line, and a
\* stderr chunk.
ChunkKinds == {"stdoutErrorLine", "stderr"}

VARIABLES
    capacity,         \* this.options.maxConcurrentProcesses
    pc,               \* position of each startClaudeProcess call
    status,           \* claudeProcess.status
    proc,             \* the child process of each task
    timer,            \* the timeout timer of waitForProcessCompletion is armed
    activeProcesses,  \* keys of this.activeProcesses
    processStats,     \* this.processStats
    pollList,         \* pending checkSlot timers in expiry order, those armed
                      \* at the same loop time together
    firing,           \* expired checkSlot timers of the current timers phase
    rearmed,          \* checkSlot timers armed again in the current timers phase
    result,           \* what the startClaudeProcess promise settled with
    out,              \* captured output of each task
    chunks,           \* chunks delivered so far
    cleanupPc,        \* position of cleanup()
    waitingAtCancel,  \* history: tasks waiting for a slot when cleanup() was called
    activeAtCancel,   \* history: tasks registered when cleanup() was called
    sessionPc,        \* position of startVariationGeneration
    sessionTasks,     \* the tasks of the session
    sessionResults,   \* session.results[i].success
    waitSeq,          \* history: tasks in the order they began to wait for a slot
    admitSeq,         \* history: waiting tasks in the order they were admitted
    worktreeOf,       \* claudeProcess.worktree.name of each task
    sessionDurations, \* session.results[i].duration
    autoCleanup,      \* worktreeManager.options.autoCleanup
    activeWorktrees,  \* keys of worktreeManager.activeWorktrees
    processRegistry,  \* keys of worktreeManager.processRegistry
    branches,         \* the repository: branches of worktrees
    dirs,             \* the disk: worktree directories
    port,             \* config.worktree.port of each worktree
    devServer,        \* the dev server process of each worktree
    calls,            \* the calls of the worktree manager in progress, a bag
    usedNames,        \* worktree names computed so far
    thisMs,           \* worktree names computed in the current millisecond
    destroyed,        \* history: names removed from activeWorktrees
    last,             \* history: the call that ended in the last step, as it ended
    allPc,            \* position of cleanupAllWorktrees
    comparison,       \* the comparison object of generateVariationComparison
    similarity,       \* a call of calculateOverallSimilarity: metrics and result
    parse,            \* a call of parseClaudeOutput: stdout and what it returned
    scan,             \* a call of findAvailablePort: the busy ports and the result
    validation,       \* a call of validateAgainstSpecs
    correction,       \* a call of executeIterativeFixes
    agent             \* a SelfCorrectionAgent and the files it edits

\* The state of the worktree manager, the repository and the disk.
worktreeVars == <<autoCleanup, activeWorktrees, processRegistry, branches, dirs,
                  port, devServer, calls, usedNames, thisMs, destroyed, last,
                  allPc>>

\* The state of the comparison of variations.
comparisonVars == <<comparison, similarity>>

\* The state of the calls that are modelled by themselves.
workflowVars == <<parse, scan, validation, correction, agent>>

vars == <<capacity, pc, status, proc, timer, activeProcesses,
          processStats, pollList, firing, rearmed, result, out, chunks, cleanupPc,
          waitingAtCancel, activeAtCancel, sessionPc, sessionTasks,
          sessionResults, waitSeq, admitSeq, worktreeOf, sessionDurations,
          worktreeVars, comparisonVars, workflowVars>>

NoResult == [kind |-> "none", success |-> FALSE, exitCode |-> "none",
             stderr |-> 0, errors |-> FALSE]

\* A 'close' handler that takes every exit of the worker's own for success.
CloseSuccessAnyExit(code) == code \in {"0", "1"}

\* result.success in the 'close' handler of waitForProcessCompletion.
CloseSuccess(code) == code = "0"

CloseResult(t, code) ==
    [kind |-> "value", success |-> CloseSuccess(code), exitCode |-> code,
     stderr |-> out[t].stderr, errors |-> out[t].errorLine]

\* The error a startClaudeProcess promise rejects with.
Rejection(why) ==
    [kind |-> why, success |-> FALSE, exitCode |-> "none",
     stderr |-> 0, errors |-> FALSE]

Settled(t) == pc[t] \in {"fulfilled", "rejected"}

\* The capacity check of startClaudeProcess and of checkSlot.
AtCapacity == Cardinality(activeProcesses) >= capacity

\* Promise.allSettled of the session has resolved.
SessionSettled ==
    /\ sessionPc = "running"
    /\ \A t \in sessionTasks : Settled(t)

\* A promise continuation or a nextTick callback is queued: it runs before
\* the next timer callback and before any child-process event is delivered.
MicroPending ==
    \/ \E t \in Tasks : pc[t] \in {"spawned", "spawnThrew"}
    \/ \E t \in Tasks : pc[t] = "running" /\ proc[t] = "spawnFail"
    \/ SessionSettled

\* The event loop is not free to deliver another event: continuations are
\* queued, or timers that expired together are still being run.
JobPending == MicroPending \/ firing # <<>>

NoCall == [kind |-> "none", name |-> 0, pc |-> "free", by |-> "none", task |-> 0,
           merged |-> FALSE, noop |-> FALSE]

\* The constructor of GitWorktreeManager, with options.autoCleanup = a, in a
\* repository that holds no worktree.
ConstructWorktreeManager(a) ==
    /\ autoCleanup = a
    /\ activeWorktrees = {}
    /\ processRegistry = {}
    /\ branches = {}
    /\ dirs = {}
    /\ port = [n \in Names |-> 0]
    /\ devServer = [n \in Names |-> "none"]
    /\ calls = EmptyBag
    /\ usedNames = {}
    /\ thisMs = {}
    /\ destroyed = {}
    /\ last = NoCall
    /\ allPc = "idle"

\* The fields the constructor of ParallelClaudeManager sets itself, with
\* options.maxConcurrentProcesses = c.
ConstructPool(c) ==
    /\ capacity = c
    /\ pc = [t \in Tasks |-> "idle"]
    /\ status = [t \in Tasks |-> "none"]
    /\ proc = [t \in Tasks |-> "none"]
    /\ timer = [t \in Tasks |-> FALSE]
    /\ activeProcesses = {}
    /\ processStats = [started |-> 0, completed |-> 0, failed |-> 0, active |-> 0]
    /\ pollList = <<>>
    /\ firing = <<>>
    /\ rearmed = <<>>
    /\ result = [t \in Tasks |-> NoResult]
    /\ out = [t \in Tasks |-> [logs |-> 0, stderr |-> 0, errorLine |-> FALSE]]
    /\ chunks = 0
    /\ cleanupPc = "idle"
    /\ waitingAtCancel = {}
    /\ activeAtCancel = {}
    /\ sessionPc = "idle"
    /\ sessionTasks = {}
    /\ sessionResults = [t \in Tasks |-> FALSE]
    /\ waitSeq = <<>>
    /\ admitSeq = <<>>
    /\ worktreeOf = [t \in Tasks |-> 0]
    /\ sessionDurations = [t \in Tasks |-> "none"]

\* The value of a property that was not set: undefined.
Undefined == -2

\* metrics.accessibilityComparison and metrics.performanceComparison before
\* compareVariationPair has set them.
NoScores == [variationA |-> Undefined, variationB |-> Undefined, difference |-> Undefined]

\* The analysis object analyzeComparisons starts from, for n comparisons.
\* averageSimilarity is a fraction, with den = 0 for NaN; a pair is the index
\* of its comparison, 0 for null.
EmptyAnalysis(n) ==
    [totalComparisons |-> n, averageSimilarity |-> [num |-> 0, den |-> 1],
     mostSimilarPair |-> 0, mostDifferentPair |-> 0, clusters |-> <<>>]

\* No comparison of variations has begun and calculateOverallSimilarity was
\* not called.
NoComparison ==
    /\ comparison = [pc |-> "comparing", comparisons |-> <<>>,
                     analysis |-> EmptyAnalysis(0), recommendations |-> <<>>]
    /\ similarity = [metrics |-> [visualSimilarity |-> Undefined,
                                  accessibilityComparison |-> NoScores,
                                  performanceComparison |-> NoScores],
                     overall |-> Undefined]

\* The constructor, with options.maxConcurrentProcesses = c and the default
\* options of the worktree manager.
\* parseClaudeOutput was not called.
NoParse == parse = [pc |-> "idle"]

\* findAvailablePort was not called.
NoScan == scan = [pc |-> "idle"]

\* validateAgainstSpecs was not called.
NoValidation == validation = [pc |-> "idle"]

\* executeIterativeFixes was not called.
NoCorrection == correction = [pc |-> "idle"]

\* No SelfCorrectionAgent was constructed.
NoAgent == agent = [pc |-> "idle"]

\* None of the calls that are modelled by themselves was made.
NoWorkflow == NoParse /\ NoScan /\ NoValidation /\ NoCorrection /\ NoAgent

Construct(c) ==
    ConstructPool(c) /\ ConstructWorktreeManager(TRUE) /\ NoComparison /\ NoWorkflow

Init == \E c \in Capacities : Construct(c)


\* The elements of a set of tasks in ascending order: the order in which
\* worktrees.map calls startClaudeProcess.
InOrder(S) ==
    CHOOSE s \in [1..Cardinality(S) -> S] :
        \A i, j \in 1..Cardinality(S) : i < j => s[i] < s[j]

\* startClaudeProcess from the creation of claudeProcess to the await of
\* spawnClaudeProcess, for the tasks of S, o[t] being what the environment
\* makes of the launch of t.
Launch(S, o) ==
    /\ pc' = [t \in Tasks |->
                IF t \notin S THEN pc[t]
                ELSE IF o[t] = "instrThrow" THEN "rejected"
                ELSE IF o[t] = "spawnThrow" THEN "spawnThrew"
                ELSE "spawned"]
    /\ status' = [t \in Tasks |-> IF t \in S THEN "starting" ELSE status[t]]
    /\ proc' = [t \in Tasks |->
                IF t \notin S THEN proc[t]
                ELSE IF o[t] = "ok" THEN "running"
                ELSE IF o[t] = "spawnFail" THEN "spawnFail"
                ELSE "none"]
    /\ result' = [t \in Tasks |->
                IF t \in S /\ o[t] = "instrThrow"
                THEN Rejection("instructions") ELSE result[t]]

\* startClaudeProcess at capacity: waitForAvailableSlot arms a checkSlot timer.
Wait(S) ==
    /\ pc' = [t \in Tasks |-> IF t \in S THEN "waiting" ELSE pc[t]]
    /\ pollList' = Append(pollList, InOrder(S))
    /\ waitSeq' = waitSeq \o InOrder(S)
    /\ UNCHANGED <<status, proc, result, firing, rearmed, admitSeq>>

\* The synchronous part of the calls startClaudeProcess(t), t in S, made one
\* after the other without returning to the event loop.
StartAll(S) ==
    IF AtCapacity
    THEN Wait(S)
    ELSE /\ \E o \in [S -> Outcomes] : Launch(S, o)
         /\ UNCHANGED <<pollList, firing, rearmed, waitSeq, admitSeq>>

\* A caller calls startClaudeProcess, as task t, for the worktree named n.
\* cleanup() is the shutdown of the manager: no caller starts a task after
\* calling it.
StartClaudeProcess(t, n) ==
    /\ pc[t] = "idle"
    /\ cleanupPc = "idle"
    /\ ~SessionSettled
    /\ firing = <<>>
    /\ StartAll({t})
    /\ worktreeOf' = [worktreeOf EXCEPT ![t] = n]
    /\ UNCHANGED <<capacity, timer, activeProcesses, processStats, out, chunks,
                   cleanupPc, waitingAtCancel, activeAtCancel, sessionPc, sessionTasks,
                   sessionResults, sessionDurations>>
    /\ UNCHANGED worktreeVars
    /\ UNCHANGED comparisonVars
    /\ UNCHANGED workflowVars

\* A caller calls startClaudeProcess for one worktree, which it passes to no
\* other call: the worktree of task t is named t.
Submit(t) == StartClaudeProcess(t, t)

\* startVariationGeneration, once the worktrees exist: worktrees.map starts
\* every task in the same tick, then awaits Promise.allSettled.
StartSession ==
    /\ sessionPc = "idle"
    /\ cleanupPc = "idle"
    /\ firing = <<>>
    /\ LET S == {t \in Tasks : pc[t] = "idle"} IN
        /\ S # {}
        /\ StartAll(S)
        /\ sessionTasks' = S
        /\ worktreeOf' = [t \in Tasks |-> IF t \in S THEN t ELSE worktreeOf[t]]
    /\ sessionPc' = "running"
    /\ UNCHANGED <<capacity, timer, activeProcesses, processStats, out, chunks,
                   cleanupPc, waitingAtCancel, activeAtCancel, sessionResults,
                   sessionDurations>>
    /\ UNCHANGED worktreeVars
    /\ UNCHANGED comparisonVars
    /\ UNCHANGED workflowVars

\* The tasks whose processId, `claude-${worktree.name}`, is that of task t:
\* they share one key of this.activeProcesses.
SameKey(t) == {u \in Tasks : worktreeOf[u] = worktreeOf[t]}

\* The continuation of `await this.spawnClaudeProcess(...)` when it returned
\* a child process, up to the await of waitForProcessCompletion, whose
\* executor arms the timeout and attaches the handlers.
Register(t) ==
    /\ pc[t] = "spawned"
    /\ pc' = [pc EXCEPT ![t] = "running"]
    /\ status' = [status EXCEPT ![t] = "running"]
    /\ activeProcesses' = (activeProcesses \ SameKey(t)) \cup {t}
    /\ processStats' = [processStats EXCEPT !.started = @ + 1, !.active = @ + 1]
    /\ timer' = [timer EXCEPT ![t] = TRUE]
    /\ UNCHANGED <<capacity, proc, pollList, firing, rearmed, result, out, chunks, cleanupPc,
                   waitingAtCancel, activeAtCancel, sessionPc, sessionTasks, sessionResults,
                   waitSeq, admitSeq>>
    /\ UNCHANGED worktreeVars
    /\ UNCHANGED comparisonVars
    /\ UNCHANGED workflowVars
    /\ UNCHANGED worktreeOf
    /\ UNCHANGED sessionDurations

\* A finally block that leaves the entry of the task in the map.
ReleaseKept(t) == activeProcesses

\* The finally block of startClaudeProcess: this.activeProcesses.delete.
Release(t) == activeProcesses \ SameKey(t)

\* The catch and finally blocks of startClaudeProcess.
Fail(t, why) ==
    /\ pc' = [pc EXCEPT ![t] = "rejected"]
    /\ status' = [status EXCEPT ![t] = "failed"]
    /\ processStats' = [processStats EXCEPT !.active = @ - 1, !.failed = @ + 1]
    /\ result' = [result EXCEPT ![t] = Rejection(why)]
    /\ activeProcesses' = Release(t)

\* The continuation of `await this.spawnClaudeProcess(...)` when spawn threw.
SpawnCatch(t) ==
    /\ pc[t] = "spawnThrew"
    /\ Fail(t, "spawnThrow")
    /\ UNCHANGED <<capacity, proc, timer, pollList, firing, rearmed, out, chunks, cleanupPc,
                   waitingAtCancel, activeAtCancel, sessionPc, sessionTasks, sessionResults,
                   waitSeq, admitSeq>>
    /\ UNCHANGED worktreeVars
    /\ UNCHANGED comparisonVars
    /\ UNCHANGED workflowVars
    /\ UNCHANGED worktreeOf
    /\ UNCHANGED sessionDurations

\* The 'error' handler: the executable could not be started.
ErrorEvent(t) ==
    /\ pc[t] = "running"
    /\ proc[t] = "spawnFail"
    /\ Fail(t, "spawnError")
    /\ timer' = [timer EXCEPT ![t] = FALSE]
    /\ proc' = [proc EXCEPT ![t] = "errored"]
    /\ UNCHANGED <<capacity, pollList, firing, rearmed, out, chunks, cleanupPc, waitingAtCancel, activeAtCancel,
                   sessionPc, sessionTasks, sessionResults, waitSeq, admitSeq>>
    /\ UNCHANGED worktreeVars
    /\ UNCHANGED comparisonVars
    /\ UNCHANGED workflowVars
    /\ UNCHANGED worktreeOf
    /\ UNCHANGED sessionDurations

\* childProcess.kill(): SIGTERM is sent to a running process, which dies, or
\* handles the signal, later.
Kill(S) ==
    proc' = [t \in Tasks |->
                IF t \in S /\ proc[t] = "running" THEN "termPending" ELSE proc[t]]

\* childProcess.killed
Killed(t) == proc[t] = "termPending"

\* A timeout callback that kills every registered process.
TimeoutKillsAll(t) == activeProcesses \cup {t}

\* The processes the timeout callback of task t kills.
TimeoutKills(t) == {t}

\* The setTimeout callback of waitForProcessCompletion: kill, then reject,
\* which runs the catch and finally blocks of startClaudeProcess.
Timeout(t) ==
    /\ timer[t]
    /\ ~JobPending
    /\ Kill(TimeoutKills(t))
    /\ Fail(t, "timeout")
    /\ timer' = [timer EXCEPT ![t] = FALSE]
    /\ UNCHANGED <<capacity, pollList, firing, rearmed, out, chunks, cleanupPc, waitingAtCancel, activeAtCancel,
                   sessionPc, sessionTasks, sessionResults, waitSeq, admitSeq>>
    /\ UNCHANGED worktreeVars
    /\ UNCHANGED comparisonVars
    /\ UNCHANGED workflowVars
    /\ UNCHANGED worktreeOf
    /\ UNCHANGED sessionDurations

\* The stdout and stderr 'data' handlers.
Data(t, kind) ==
    /\ pc[t] \in {"running", "fulfilled", "rejected"}
    /\ proc[t] \in {"running", "termPending"}
    /\ ~JobPending
    /\ chunks < MaxChunks
    /\ chunks' = chunks + 1
    /\ out' = [out EXCEPT ![t] =
                IF kind = "stderr"
                THEN [@ EXCEPT !.logs = @ + 1, !.stderr = @ + 1]
                ELSE [@ EXCEPT !.logs = @ + 1, !.errorLine = TRUE]]
    /\ UNCHANGED <<capacity, pc, status, proc, timer, activeProcesses, processStats,
                   pollList, firing, rearmed, result, cleanupPc, waitingAtCancel, activeAtCancel,
                   sessionPc, sessionTasks, sessionResults, waitSeq, admitSeq>>
    /\ UNCHANGED worktreeVars
    /\ UNCHANGED comparisonVars
    /\ UNCHANGED workflowVars
    /\ UNCHANGED worktreeOf
    /\ UNCHANGED sessionDurations

\* A promise that could be settled again.
PendingAlways(t) == TRUE

\* The promise of waitForProcessCompletion is pending: neither resolve nor
\* reject was called.  Calling either on a settled promise does nothing.
Pending(t) == pc[t] = "running"

\* The worker process has ended and its 'close' event is delivered: the
\* 'close' handler, and the rest of the try block of startClaudeProcess when
\* the promise of waitForProcessCompletion was still pending.
Close(t, code) ==
    /\ proc[t] \in {"running", "termPending", "errored"}
    /\ code \in CloseCodes(proc[t])
    /\ pc[t] \in {"running", "fulfilled", "rejected"}
    /\ ~JobPending
    /\ proc' = [proc EXCEPT ![t] = "closed"]
    /\ timer' = [timer EXCEPT ![t] = FALSE]
    /\ IF Pending(t)
       THEN LET r == CloseResult(t, code) IN
            /\ pc' = [pc EXCEPT ![t] = "fulfilled"]
            /\ status' = [status EXCEPT ![t] =
                            IF r.success THEN "completed" ELSE "failed"]
            /\ result' = [result EXCEPT ![t] = r]
            /\ processStats' =
                 IF r.success
                 THEN [processStats EXCEPT !.active = @ - 1, !.completed = @ + 1]
                 ELSE [processStats EXCEPT !.active = @ - 1, !.failed = @ + 1]
            /\ activeProcesses' = Release(t)
       ELSE UNCHANGED <<pc, status, result, processStats, activeProcesses>>
    /\ UNCHANGED <<capacity, pollList, firing, rearmed, out, chunks, cleanupPc, waitingAtCancel, activeAtCancel,
                   sessionPc, sessionTasks, sessionResults, waitSeq, admitSeq>>
    /\ UNCHANGED worktreeVars
    /\ UNCHANGED comparisonVars
    /\ UNCHANGED workflowVars
    /\ UNCHANGED worktreeOf
    /\ UNCHANGED sessionDurations

\* The checkSlot timers that have expired and are not run yet: those left of
\* the current timers phase, else those that expire next.
Expired ==
    IF firing # <<>> THEN firing
    ELSE IF pollList # <<>> THEN Head(pollList) ELSE <<>>

NotExpired == IF firing # <<>> THEN pollList ELSE Tail(pollList)

\* The checkSlot timer callback of waitForAvailableSlot and, when a slot is
\* free, the continuation of startClaudeProcess.  Timers armed at the same
\* loop time expire together and are run one after the other; those armed
\* again expire together again.
CheckSlot(t) ==
    /\ Expired # <<>>
    /\ Head(Expired) = t
    /\ ~MicroPending
    /\ LET left == Tail(Expired)
           again == IF AtCapacity THEN Append(rearmed, t) ELSE rearmed
       IN  /\ firing' = left
           /\ rearmed' = IF left = <<>> THEN <<>> ELSE again
           /\ pollList' = IF left = <<>> /\ again # <<>>
                          THEN Append(NotExpired, again) ELSE NotExpired
    /\ IF AtCapacity
       THEN UNCHANGED <<pc, status, proc, result, admitSeq>>
       ELSE /\ admitSeq' = Append(admitSeq, t)
            /\ \E o \in [{t} -> Outcomes] : Launch({t}, o)
    /\ UNCHANGED <<capacity, timer, activeProcesses, processStats, out, chunks,
                   cleanupPc, waitingAtCancel, activeAtCancel, sessionPc, sessionTasks,
                   sessionResults, waitSeq>>
    /\ UNCHANGED worktreeVars
    /\ UNCHANGED comparisonVars
    /\ UNCHANGED workflowVars
    /\ UNCHANGED worktreeOf
    /\ UNCHANGED sessionDurations

\* The processes cleanup() kills.
CleanupKills == {t \in activeProcesses : ~Killed(t)}

\* cleanup() up to the await of cleanupAllWorktrees.
CleanupStart ==
    /\ cleanupPc = "idle"
    /\ ~JobPending
    /\ Kill(CleanupKills)
    /\ cleanupPc' = "awaiting"
    /\ waitingAtCancel' = {t \in Tasks : pc[t] = "waiting"}
    /\ activeAtCancel' = activeProcesses
    /\ UNCHANGED <<capacity, pc, status, timer, activeProcesses, processStats,
                   pollList, firing, rearmed, result, out, chunks, sessionPc,
                   sessionTasks, sessionResults, waitSeq, admitSeq>>
    /\ UNCHANGED worktreeVars
    /\ UNCHANGED comparisonVars
    /\ UNCHANGED workflowVars
    /\ UNCHANGED worktreeOf
    /\ UNCHANGED sessionDurations

\* cleanup() after the await: activeProcesses.clear().
CleanupFinish ==
    /\ cleanupPc = "awaiting"
    /\ ~JobPending
    /\ activeProcesses' = {}
    /\ cleanupPc' = "done"
    /\ UNCHANGED <<capacity, pc, status, proc, timer, processStats, pollList, firing, rearmed, result,
                   out, chunks, waitingAtCancel, activeAtCancel, sessionPc,
                   sessionTasks, sessionResults, waitSeq, admitSeq>>
    /\ UNCHANGED worktreeVars
    /\ UNCHANGED comparisonVars
    /\ UNCHANGED workflowVars
    /\ UNCHANGED worktreeOf
    /\ UNCHANGED sessionDurations

\* session.results[i].success: result.status === 'fulfilled'.
ReportSuccess(t) == pc[t] = "fulfilled"

\* createUIVariations: result.results.filter(r => r.success), the variations
\* it passes to generateVariationComparison.
SuccessfulVariations == {t \in sessionTasks : sessionResults[t]}

\* The pairs generateVariationComparison compares, which createUIVariations
\* calls when more than one variation succeeded.
ComparedPairs ==
    IF sessionPc = "reported" /\ Cardinality(SuccessfulVariations) > 1
    THEN {<<t, u>> \in SuccessfulVariations \X SuccessfulVariations : t < u}
    ELSE {}

\* A startVariationGeneration that awaits Promise.all: the first rejection is
\* thrown by its catch block.
AfterAll == IF \E t \in sessionTasks : pc[t] = "rejected" THEN "threw" ELSE "reported"

\* startVariationGeneration awaits Promise.allSettled, which never rejects:
\* it goes on to the report and returns it.
AfterAllSettled == "reported"

\* claudeProcess.endTime is set: startClaudeProcess sets it after the promise
\* of waitForProcessCompletion was fulfilled, and nowhere else.
EndTime(u) == pc[u] = "fulfilled"

\* calculateProcessDuration(worktree.name) for the worktree of task t: the
\* entry of activeProcesses whose id includes the name, null when there is
\* none or when it has no endTime.
calculateProcessDuration(t) ==
    LET found == {u \in activeProcesses : worktreeOf[u] = worktreeOf[t]} IN
    IF found = {} \/ \E u \in found : ~EndTime(u) THEN "null" ELSE "number"

\* startVariationGeneration after Promise.allSettled: the session results and
\* the report.
SessionReport ==
    /\ SessionSettled
    /\ sessionResults' = [t \in Tasks |-> t \in sessionTasks /\ ReportSuccess(t)]
    /\ sessionDurations' = [t \in Tasks |->
                              IF t \in sessionTasks THEN calculateProcessDuration(t)
                              ELSE "none"]
    /\ sessionPc' = AfterAllSettled
    /\ UNCHANGED <<capacity, pc, status, proc, timer, activeProcesses, processStats,
                   pollList, firing, rearmed, result, out, chunks, cleanupPc,
                   waitingAtCancel, activeAtCancel, sessionTasks, waitSeq, admitSeq>>
    /\ UNCHANGED worktreeVars
    /\ UNCHANGED comparisonVars
    /\ UNCHANGED workflowVars
    /\ UNCHANGED worktreeOf

\* report.summary.failedVariations
failedVariations == Cardinality({t \in sessionTasks : ~sessionResults[t]})

Next ==
    \/ \E t \in Tasks : Submit(t)
    \/ StartSession
    \/ \E t \in Tasks : Register(t)
    \/ \E t \in Tasks : SpawnCatch(t)
    \/ \E t \in Tasks : ErrorEvent(t)
    \/ \E t \in Tasks : Timeout(t)
    \/ \E t \in Tasks : \E kind \in ChunkKinds : Data(t, kind)
    \/ \E t \in Tasks : \E code \in OwnExitCodes \cup {"null", "errno"} : Close(t, code)
    \/ \E t \in Tasks : CheckSlot(t)
    \/ CleanupStart
    \/ CleanupFinish
    \/ SessionReport

Spec == Init /\ [][Next]_vars


\* The pool alone: the calls of startClaudeProcess and what follows from them.
PoolNext ==
    \/ \E t \in Tasks : Submit(t)
    \/ \E t \in Tasks : Register(t)
    \/ \E t \in Tasks : SpawnCatch(t)
    \/ \E t \in Tasks : ErrorEvent(t)
    \/ \E t \in Tasks : Timeout(t)
    \/ \E t \in Tasks : \E kind \in ChunkKinds : Data(t, kind)
    \/ \E t \in Tasks : \E code \in OwnExitCodes \cup {"null", "errno"} : Close(t, code)
    \/ \E t \in Tasks : CheckSlot(t)

PoolSpec == Construct(MaxCapacity) /\ [][PoolNext]_vars

\* The pool when callers choose the worktree of each call of
\* startClaudeProcess freely.
SharedNext ==
    \/ \E t \in Tasks : \E n \in Names : StartClaudeProcess(t, n)
    \/ \E t \in Tasks : Register(t)
    \/ \E t \in Tasks : SpawnCatch(t)
    \/ \E t \in Tasks : ErrorEvent(t)
    \/ \E t \in Tasks : Timeout(t)
    \/ \E t \in Tasks : \E kind \in ChunkKinds : Data(t, kind)
    \/ \E t \in Tasks : \E code \in OwnExitCodes \cup {"null", "errno"} : Close(t, code)
    \/ \E t \in Tasks : CheckSlot(t)

SharedSpec == Construct(MaxCapacity) /\ [][SharedNext]_vars

\* A session and direct calls, without the output handlers, under the
\* scheduling of the event loop: a queued continuation runs, a failed spawn
\* is reported, and an armed timer fires although other callbacks keep the
\* loop busy in between.  A caller need not call and a worker need not exit.
LiveNext ==
    \/ \E t \in Tasks : Submit(t)
    \/ StartSession
    \/ \E t \in Tasks : Register(t)
    \/ \E t \in Tasks : SpawnCatch(t)
    \/ \E t \in Tasks : ErrorEvent(t)
    \/ \E t \in Tasks : Timeout(t)
    \/ \E t \in Tasks : \E code \in OwnExitCodes \cup {"null", "errno"} : Close(t, code)
    \/ \E t \in Tasks : CheckSlot(t)
    \/ SessionReport

\* The queued continuations and nextTick callbacks.
Continuation ==
    \/ \E t \in Tasks : Register(t)
    \/ \E t \in Tasks : SpawnCatch(t)
    \/ \E t \in Tasks : ErrorEvent(t)
    \/ SessionReport

LiveSpec ==
    /\ Construct(MaxCapacity)
    /\ [][LiveNext]_vars
    /\ WF_vars(Continuation)
    /\ SF_vars(\E t \in Tasks : Timeout(t))
    /\ SF_vars(\E t \in Tasks : CheckSlot(t))

\* The variables of the process pool and of the session.
poolVars == <<capacity, pc, status, proc, timer, activeProcesses, processStats,
              pollList, firing, rearmed, result, out, chunks, cleanupPc,
              waitingAtCancel, activeAtCancel, sessionPc, sessionTasks,
              sessionResults, waitSeq, admitSeq, worktreeOf, sessionDurations>>

Least(S) == CHOOSE x \in S : \A y \in S : x <= y

\* Positions at which a call has ended: it returned, mergeVariation returned
\* { success: false }, or it threw.
Ended == {"returned", "failure", "threw"}

\* Positions at which a call has a git command that changes the repository
\* in flight.
GitPcs == {"adding", "checkout", "merging", "removing", "deleting"}

\* The calls in progress and those whose promise is awaited.
Calls == BagToSet(calls)

\* Room for k more calls.
Room(k) == BagCardinality(calls) + k <= NumCalls

\* The promise of call c is held by a Promise.all or Promise.allSettled that
\* has not settled.
Awaited(c) ==
    \/ c.by = "session" /\ sessionPc = "provisioning"
    \/ c.by = "all" /\ allPc = "awaiting"

\* The worktree names a call of createWorktree can compute: one of the
\* current millisecond, or one whose timestamp was not seen before.  A git
\* command takes longer than a millisecond, so that a name is computed again
\* only before any command issued since has ended.  Names are numbered in
\* the order in which they are first computed.
NewNames == thisMs \cup {n \in Names : n = Cardinality(usedNames) + 1}

\* The names f of calls made in the same tick: names of the current
\* millisecond, and names not seen before, numbered in that order.
NewNamesOf(f) ==
    \A i \in DOMAIN f :
        \/ f[i] \in thisMs
        \/ /\ f[i] \in Names \ usedNames
           /\ \A m \in Names \ usedNames : m < f[i] => \E j \in DOMAIN f : j < i /\ f[j] = m

\* A lookup that finds a worktree under every name.
RegisteredAlways(n) == TRUE

\* this.activeWorktrees.get(worktreeName) finds the worktree.
Registered(n) == n \in activeWorktrees

\* Ports some dev server listens on.
Listening == {port[n] : n \in {m \in Names : devServer[m] = "up"}}

\* findAvailablePort(3000): the first port netstat shows no line for.
findAvailablePort == Least({p \in Ports : p \notin Listening})

\* A `git worktree add -b` that succeeds although the branch exists.
CanAddAlways(n) == TRUE

\* `git worktree add -b n path` can succeed: git refuses a branch or a path
\* that exists.
CanAdd(n) == n \notin branches /\ n \notin dirs

\* A mergeVariation whose catch block throws the error again.
MergeFailureThrown == "threw"

\* The catch block of mergeVariation: return { success: false, error }.
MergeFailure == "failure"

\* A cleanupWorktree without a catch block: the error reaches the caller, and
\* in mergeVariation the catch block of the merge.
CleanupFailureThrown(kind) == IF kind = "merge" THEN MergeFailure ELSE "threw"

\* The catch block of cleanupWorktree: the error is logged and the call
\* returns; mergeVariation goes on to return { success: true }.
CleanupFailure(kind) == "returned"

\* A cleanupWorktree that deletes the branch whether the worktree was removed
\* or not.
AfterRemoveAnyway(ok, kind) == "deleting"

\* cleanupWorktree after `git worktree remove`: delete the branch, or the
\* catch block.
AfterRemove(ok, kind) == IF ok THEN "deleting" ELSE CleanupFailure(kind)

NewCall(kind, n, at, by, t) ==
    [kind |-> kind, name |-> n, pc |-> at, by |-> by, task |-> t,
     merged |-> FALSE, noop |-> FALSE]

\* The bag of the call d, when it is in progress or its promise is awaited.
Kept(d) == IF d.pc \in Ended /\ ~Awaited(d) THEN EmptyBag ELSE SetToBag({d})

\* A call begins, as d.
Begin(d) ==
    /\ calls' = calls (+) Kept(d)
    /\ last' = IF d.pc \in Ended THEN d ELSE NoCall

\* The call c goes on, or ends, as d.
Step(c, d) ==
    /\ calls' = (calls (-) SetToBag({c})) (+) Kept(d)
    /\ last' = IF d.pc \in Ended THEN d ELSE NoCall

\* process.devServer.kill() for the worktrees of S.
KillDevServers(S) ==
    devServer' = [n \in Names |->
                    IF n \in S /\ n \in processRegistry /\ devServer[n] = "up"
                    THEN "down" ELSE devServer[n]]

\* createWorktree(variationName) called by a caller of the worktree manager,
\* up to the await of `git worktree add`.
CreateWorktree(n) ==
    /\ Room(1)
    /\ n \in NewNames
    /\ Begin(NewCall("create", n, "adding", "caller", 0))
    /\ usedNames' = usedNames \cup {n}
    /\ thisMs' = thisMs \cup {n}
    /\ UNCHANGED <<autoCleanup, activeWorktrees, processRegistry, branches, dirs,
                   port, devServer, destroyed, allPc>>
    /\ UNCHANGED poolVars
    /\ UNCHANGED comparisonVars
    /\ UNCHANGED workflowVars

\* startVariationGeneration with k variation specs, up to the await of
\* Promise.all: createVariationWorktree is called for each, and each calls
\* createWorktree, in the same tick.
Provision(k) ==
    /\ sessionPc = "idle"
    /\ k \in Tasks
    /\ Room(k)
    /\ \E f \in [1..k -> Names] :
        /\ NewNamesOf(f)
        /\ calls' = calls (+) SetToBag({NewCall("create", f[i], "adding", "session", i) :
                                            i \in 1..k})
        /\ usedNames' = usedNames \cup {f[i] : i \in 1..k}
        /\ thisMs' = thisMs \cup {f[i] : i \in 1..k}
    /\ sessionPc' = "provisioning"
    /\ UNCHANGED <<autoCleanup, activeWorktrees, processRegistry, branches, dirs,
                   port, devServer, destroyed, allPc>>
    /\ last' = NoCall
    /\ UNCHANGED comparisonVars
    /\ UNCHANGED workflowVars
    /\ UNCHANGED <<capacity, pc, status, proc, timer, activeProcesses, processStats,
                   pollList, firing, rearmed, result, out, chunks, cleanupPc,
                   waitingAtCancel, activeAtCancel, sessionTasks, sessionResults,
                   waitSeq, admitSeq, worktreeOf, sessionDurations>>

\* `git worktree add` has ended: createWorktree goes on to
\* setupWorktreeEnvironment, or throws.
AddDone(ok) ==
    \E c \in Calls :
        /\ c.pc = "adding"
        /\ ok => CanAdd(c.name)
        /\ Step(c, [c EXCEPT !.pc = IF ok THEN "setup" ELSE "threw"])
        /\ branches' = IF ok THEN branches \cup {c.name} ELSE branches
        /\ dirs' = IF ok THEN dirs \cup {c.name} ELSE dirs
        /\ thisMs' = {}
        /\ UNCHANGED <<autoCleanup, activeWorktrees, processRegistry, port, devServer,
                       usedNames, destroyed, allPc>>
        /\ UNCHANGED poolVars
        /\ UNCHANGED comparisonVars
        /\ UNCHANGED workflowVars

\* setupWorktreeEnvironment has ended.  When it threw, createWorktree throws.
\* Else createWorktreeConfig has written the port, createWorktree registers
\* the worktree and returns, and createVariationWorktree calls startClaudeProcess
\* of the worktree manager, which starts the dev server and waits for it.
SetupDone(ok) ==
    \E c \in Calls :
        /\ c.pc = "setup"
        /\ Step(c, [c EXCEPT !.pc = IF ~ok THEN "threw"
                                   ELSE IF c.by = "session" THEN "devServer"
                                   ELSE "returned"])
        /\ port' = IF ok THEN [port EXCEPT ![c.name] = findAvailablePort] ELSE port
        /\ activeWorktrees' = IF ok THEN activeWorktrees \cup {c.name} ELSE activeWorktrees
        /\ thisMs' = {}
        /\ UNCHANGED <<autoCleanup, processRegistry, branches, dirs, devServer,
                       usedNames, destroyed, allPc>>
        /\ UNCHANGED poolVars
        /\ UNCHANGED comparisonVars
        /\ UNCHANGED workflowVars

\* startDevServer has ended: a server answered on the port within the 30 s
\* (ready), its own when the port was free, or none did and devServer is
\* null.  startClaudeProcess of the worktree manager registers the process
\* and createVariationWorktree returns the worktree.
DevServerDone(ready) ==
    \E c \in Calls :
        /\ c.pc = "devServer"
        /\ devServer' = [devServer EXCEPT ![c.name] =
                            IF ready /\ port[c.name] \notin Listening THEN "up" ELSE "down"]
        /\ processRegistry' = processRegistry \cup {c.name}
        /\ Step(c, [c EXCEPT !.pc = "returned"])
        /\ thisMs' = {}
        /\ UNCHANGED <<autoCleanup, activeWorktrees, branches, dirs, port,
                       usedNames, destroyed, allPc>>
        /\ UNCHANGED poolVars
        /\ UNCHANGED comparisonVars
        /\ UNCHANGED workflowVars

\* The calls createVariationWorktree of the session.
SessionCalls == {c \in Calls : c.by = "session"}

\* The calls that are in progress, the promise that awaited others having
\* settled.
InProgress == [c \in {d \in Calls : d.pc \notin Ended} |-> CopiesIn(c, calls)]

\* Promise.all of startVariationGeneration rejects with the first
\* createVariationWorktree that throws: the catch block throws the error.
ProvisionThrow ==
    /\ sessionPc = "provisioning"
    /\ \E c \in SessionCalls : c.pc = "threw"
    /\ sessionPc' = "threw"
    /\ calls' = InProgress
    /\ UNCHANGED <<autoCleanup, activeWorktrees, processRegistry, branches, dirs,
                   port, devServer, usedNames, thisMs, destroyed, allPc>>
    /\ last' = NoCall
    /\ UNCHANGED comparisonVars
    /\ UNCHANGED workflowVars
    /\ UNCHANGED <<capacity, pc, status, proc, timer, activeProcesses, processStats,
                   pollList, firing, rearmed, result, out, chunks, cleanupPc,
                   waitingAtCancel, activeAtCancel, sessionTasks, sessionResults,
                   waitSeq, admitSeq, worktreeOf, sessionDurations>>

\* Promise.all of startVariationGeneration resolves: startClaudeProcess is
\* called for every worktree, in the same tick.
StartProcesses ==
    /\ sessionPc = "provisioning"
    /\ \A c \in SessionCalls : c.pc = "returned"
    /\ LET S == {c.task : c \in SessionCalls} IN
        /\ StartAll(S)
        /\ sessionTasks' = S
        /\ worktreeOf' = [t \in Tasks |->
                            IF t \in S
                            THEN (CHOOSE c \in SessionCalls : c.task = t).name
                            ELSE worktreeOf[t]]
    /\ sessionPc' = "running"
    /\ calls' = InProgress
    /\ UNCHANGED <<autoCleanup, activeWorktrees, processRegistry, branches, dirs,
                   port, devServer, usedNames, thisMs, destroyed, allPc>>
    /\ last' = NoCall
    /\ UNCHANGED comparisonVars
    /\ UNCHANGED workflowVars
    /\ UNCHANGED <<capacity, timer, activeProcesses, processStats, out, chunks,
                   cleanupPc, waitingAtCancel, activeAtCancel, sessionResults,
                   sessionDurations>>

\* mergeVariation(worktreeName) up to the await of `git checkout`.
MergeVariation(n) ==
    /\ Room(1)
    /\ n \in usedNames
    /\ Begin(NewCall("merge", n, IF Registered(n) THEN "checkout" ELSE "threw", "caller", 0))
    /\ UNCHANGED <<autoCleanup, activeWorktrees, processRegistry, branches, dirs,
                   port, devServer, usedNames, thisMs, destroyed, allPc>>
    /\ UNCHANGED poolVars
    /\ UNCHANGED comparisonVars
    /\ UNCHANGED workflowVars

\* `git checkout` has ended.
CheckoutDone(ok) ==
    \E c \in Calls :
        /\ c.pc = "checkout"
        /\ Step(c, [c EXCEPT !.pc = IF ok THEN "merging" ELSE MergeFailure])
        /\ thisMs' = {}
        /\ UNCHANGED <<autoCleanup, activeWorktrees, processRegistry, branches, dirs,
                       port, devServer, usedNames, destroyed, allPc>>
        /\ UNCHANGED poolVars
        /\ UNCHANGED comparisonVars
        /\ UNCHANGED workflowVars

\* cleanupWorktree from its first line to the await of `git worktree remove`.
BeginCleanup(d) ==
    IF Registered(d.name) THEN [d EXCEPT !.pc = "removing"]
    ELSE [d EXCEPT !.pc = "returned", !.noop = TRUE]

\* `git merge` has ended: on success mergeVariation calls cleanupWorktree when
\* autoCleanup is set, and returns { success: true } when it is not.
MergeDone(ok) ==
    \E c \in Calls :
        /\ c.pc = "merging"
        /\ ok => c.name \in branches
        /\ IF ok /\ autoCleanup
           THEN /\ Step(c, BeginCleanup([c EXCEPT !.merged = TRUE]))
                /\ KillDevServers({c.name} \cap activeWorktrees)
           ELSE /\ Step(c, [c EXCEPT !.pc = IF ok THEN "returned" ELSE MergeFailure,
                                     !.merged = ok])
                /\ UNCHANGED devServer
        /\ thisMs' = {}
        /\ UNCHANGED <<autoCleanup, activeWorktrees, processRegistry, branches, dirs,
                       port, usedNames, destroyed, allPc>>
        /\ UNCHANGED poolVars
        /\ UNCHANGED comparisonVars
        /\ UNCHANGED workflowVars

\* cleanupWorktree(worktreeName) called by a caller of the worktree manager.
CleanupWorktree(n) ==
    /\ Room(1)
    /\ n \in usedNames
    /\ Begin(BeginCleanup(NewCall("cleanup", n, "removing", "caller", 0)))
    /\ KillDevServers({n} \cap activeWorktrees)
    /\ UNCHANGED <<autoCleanup, activeWorktrees, processRegistry, branches, dirs,
                   port, usedNames, thisMs, destroyed, allPc>>
    /\ UNCHANGED poolVars
    /\ UNCHANGED comparisonVars
    /\ UNCHANGED workflowVars

\* `git worktree remove --force` has ended.
RemoveDone(ok) ==
    \E c \in Calls :
        /\ c.pc = "removing"
        /\ ok => c.name \in dirs
        /\ Step(c, [c EXCEPT !.pc = AfterRemove(ok, c.kind)])
        /\ dirs' = IF ok THEN dirs \ {c.name} ELSE dirs
        /\ thisMs' = {}
        /\ UNCHANGED <<autoCleanup, activeWorktrees, processRegistry, branches,
                       port, devServer, usedNames, destroyed, allPc>>
        /\ UNCHANGED poolVars
        /\ UNCHANGED comparisonVars
        /\ UNCHANGED workflowVars

\* `git branch -D` has ended: on success the worktree leaves the registries.
BranchDone(ok) ==
    \E c \in Calls :
        /\ c.pc = "deleting"
        /\ ok => c.name \in branches
        /\ Step(c, [c EXCEPT !.pc = IF ok THEN "returned" ELSE CleanupFailure(c.kind)])
        /\ branches' = IF ok THEN branches \ {c.name} ELSE branches
        /\ activeWorktrees' = IF ok THEN activeWorktrees \ {c.name} ELSE activeWorktrees
        /\ processRegistry' = IF ok THEN processRegistry \ {c.name} ELSE processRegistry
        /\ destroyed' = IF ok /\ Registered(c.name) THEN destroyed \cup {c.name} ELSE destroyed
        /\ thisMs' = {}
        /\ UNCHANGED <<autoCleanup, dirs, port, devServer, usedNames, allPc>>
        /\ UNCHANGED poolVars
        /\ UNCHANGED comparisonVars
        /\ UNCHANGED workflowVars

\* cleanupAllWorktrees up to the await of Promise.allSettled: cleanupWorktree
\* is called for every registered worktree, in the same tick.
CleanupAllWorktrees ==
    /\ allPc # "awaiting"
    /\ Room(Cardinality(activeWorktrees))
    /\ calls' = calls (+) SetToBag({NewCall("cleanup", n, "removing", "all", 0) :
                                        n \in activeWorktrees})
    /\ KillDevServers(activeWorktrees)
    /\ allPc' = IF activeWorktrees = {} THEN "returned" ELSE "awaiting"
    /\ UNCHANGED <<autoCleanup, activeWorktrees, processRegistry, branches, dirs,
                   port, usedNames, thisMs, destroyed>>
    /\ last' = NoCall
    /\ UNCHANGED poolVars
    /\ UNCHANGED comparisonVars
    /\ UNCHANGED workflowVars

\* Promise.allSettled of cleanupAllWorktrees resolves.
CleanupAllDone ==
    /\ allPc = "awaiting"
    /\ \A c \in Calls : c.by = "all" => c.pc \in Ended
    /\ allPc' = "returned"
    /\ calls' = InProgress
    /\ UNCHANGED <<autoCleanup, activeWorktrees, processRegistry, branches, dirs,
                   port, devServer, usedNames, thisMs, destroyed>>
    /\ last' = NoCall
    /\ UNCHANGED poolVars
    /\ UNCHANGED comparisonVars
    /\ UNCHANGED workflowVars

\* The worktree manager called directly: createWorktree, mergeVariation,
\* cleanupWorktree and cleanupAllWorktrees.
WorktreeNext ==
    \/ \E n \in Names : CreateWorktree(n)
    \/ \E ok \in BOOLEAN : AddDone(ok)
    \/ \E ok \in BOOLEAN : SetupDone(ok)
    \/ \E n \in Names : MergeVariation(n)
    \/ \E ok \in BOOLEAN : CheckoutDone(ok)
    \/ \E ok \in BOOLEAN : MergeDone(ok)
    \/ \E n \in Names : CleanupWorktree(n)
    \/ \E ok \in BOOLEAN : RemoveDone(ok)
    \/ \E ok \in BOOLEAN : BranchDone(ok)
    \/ CleanupAllWorktrees
    \/ CleanupAllDone

WorktreeSpec ==
    /\ \E a \in BOOLEAN :
          /\ ConstructPool(MaxCapacity) /\ ConstructWorktreeManager(a)
          /\ NoComparison /\ NoWorkflow
    /\ [][WorktreeNext]_vars

\* The life of worktrees: createWorktree, cleanupWorktree and
\* cleanupAllWorktrees.
LifecycleNext ==
    \/ \E n \in Names : CreateWorktree(n)
    \/ \E ok \in BOOLEAN : AddDone(ok)
    \/ \E ok \in BOOLEAN : SetupDone(ok)
    \/ \E n \in Names : CleanupWorktree(n)
    \/ \E ok \in BOOLEAN : RemoveDone(ok)
    \/ \E ok \in BOOLEAN : BranchDone(ok)
    \/ CleanupAllWorktrees
    \/ CleanupAllDone

LifecycleSpec == Construct(MaxCapacity) /\ [][LifecycleNext]_vars

\* cleanupWorktree as the worktree manager calls it, for every registered
\* worktree in cleanupAllWorktrees and after a merge in mergeVariation, with
\* autoCleanup at its default.
CleanupNext ==
    \/ \E n \in Names : CreateWorktree(n)
    \/ \E ok \in BOOLEAN : AddDone(ok)
    \/ \E ok \in BOOLEAN : SetupDone(ok)
    \/ \E n \in Names : MergeVariation(n)
    \/ \E ok \in BOOLEAN : CheckoutDone(ok)
    \/ \E ok \in BOOLEAN : MergeDone(ok)
    \/ \E ok \in BOOLEAN : RemoveDone(ok)
    \/ \E ok \in BOOLEAN : BranchDone(ok)
    \/ CleanupAllWorktrees
    \/ CleanupAllDone

CleanupSpec == Construct(MaxCapacity) /\ [][CleanupNext]_vars

\* Merges: createWorktree and mergeVariation, with the cleanupWorktree that
\* autoCleanup has it call.
MergeNext ==
    \/ \E n \in Names : CreateWorktree(n)
    \/ \E ok \in BOOLEAN : AddDone(ok)
    \/ \E ok \in BOOLEAN : SetupDone(ok)
    \/ \E n \in Names : MergeVariation(n)
    \/ \E ok \in BOOLEAN : CheckoutDone(ok)
    \/ \E ok \in BOOLEAN : MergeDone(ok)
    \/ \E ok \in BOOLEAN : RemoveDone(ok)
    \/ \E ok \in BOOLEAN : BranchDone(ok)

MergeSpec ==
    /\ \E a \in BOOLEAN :
          /\ ConstructPool(MaxCapacity) /\ ConstructWorktreeManager(a)
          /\ NoComparison /\ NoWorkflow
    /\ [][MergeNext]_vars

\* A session from its start to the start of its processes, and the cleanup
\* of its worktrees.
ProvisionNext ==
    \/ \E k \in Tasks : Provision(k)
    \/ \E ok \in BOOLEAN : AddDone(ok)
    \/ \E ok \in BOOLEAN : SetupDone(ok)
    \/ \E ready \in BOOLEAN : DevServerDone(ready)
    \/ ProvisionThrow
    \/ StartProcesses
    \/ \E ok \in BOOLEAN : RemoveDone(ok)
    \/ \E ok \in BOOLEAN : BranchDone(ok)
    \/ CleanupAllWorktrees
    \/ CleanupAllDone

ProvisionSpec == Construct(MaxCapacity) /\ [][ProvisionNext]_vars

\* 1.0 as a similarity: similarities are counted in 400ths, so that the
\* weights, in quarters, of scores, in hundredths, are integers.
One == 400

\* The weights of calculateOverallSimilarity in equal parts.
WeightsEven == [visual |-> 1, accessibility |-> 1, performance |-> 1]

\* The weights of calculateOverallSimilarity, in quarters: 0.5, 0.25, 0.25.
Weights == [visual |-> 2, accessibility |-> 1, performance |-> 1]

\* Math.abs
Abs(x) == IF x < 0 THEN -x ELSE x

\* A combination that weighs the differences themselves.
calculateOverallSimilarityOfDifferences(metrics) ==
    metrics.visualSimilarity * Weights.visual
    + metrics.accessibilityComparison.difference * Weights.accessibility
    + metrics.performanceComparison.difference * Weights.performance

\* calculateOverallSimilarity(metrics), with visualSimilarity in hundredths
\* and the result in 400ths.
calculateOverallSimilarity(metrics) ==
    metrics.visualSimilarity * Weights.visual
    + (100 - metrics.accessibilityComparison.difference) * Weights.accessibility
    + (100 - metrics.performanceComparison.difference) * Weights.performance

\* The object compareVariationPair stores for two scores.
ScoreComparison(a, b) == [variationA |-> a, variationB |-> b, difference |-> Abs(a - b)]

\* The metrics compareVariationPair builds from a visual similarity and the
\* accessibility and performance scores of the two variations.
Metrics(v, accA, accB, perfA, perfB) ==
    [visualSimilarity |-> v,
     accessibilityComparison |-> ScoreComparison(accA, accB),
     performanceComparison |-> ScoreComparison(perfA, perfB)]

\* The scores between 0 and 100 that calculateOverallSimilarity is called
\* with, and the visual similarities between 0 and 1, in hundredths.
Grid == {(100 * k) \div Levels : k \in 0..Levels}

\* The arguments calculateOverallSimilarity is called with: the metrics of a
\* visual similarity and of scores.
MetricsInputs ==
    {Metrics(v, accA, accB, perfA, perfB) :
        v \in Grid, accA \in Grid, accB \in Grid, perfA \in Grid, perfB \in Grid}

\* calculateOverallSimilarity(metrics) is called, once, and returns.
CalculateOverallSimilarity ==
    /\ similarity.overall = Undefined
    /\ similarity' = [similarity EXCEPT
                        !.overall = calculateOverallSimilarity(similarity.metrics)]
    /\ UNCHANGED comparison
    /\ UNCHANGED poolVars
    /\ UNCHANGED worktreeVars
    /\ UNCHANGED workflowVars

\* calculateOverallSimilarity as a function of its argument.
SimilarityNext == CalculateOverallSimilarity

SimilaritySpec ==
    /\ ConstructPool(MaxCapacity) /\ ConstructWorktreeManager(TRUE)
    /\ comparison = [pc |-> "comparing", comparisons |-> <<>>,
                     analysis |-> EmptyAnalysis(0), recommendations |-> <<>>]
    /\ \E m \in MetricsInputs :
          /\ similarity = [metrics |-> m, overall |-> Undefined]
          /\ NoWorkflow
    /\ [][SimilarityNext]_vars

\* What reading a report that cannot be parsed gives: JSON.parse throws.
Unreadable == -1

\* Values of calculateVisualSimilarity, Math.random() * 0.4 + 0.6, in
\* hundredths.
VisualScores == {60, 70, 100}

\* Values of getAccessibilityScore and getPerformanceScore: the score of the
\* report, or that the report cannot be parsed.
ScoreInputs == {20, 100, Unreadable}

\* compareVariationPair: the comparison of two variations for which the
\* visual similarity is v and the scores are accA, accB, perfA and perfB.
\* When a score cannot be read, the catch block records the error and the
\* metrics stay as they were set until then.
compareVariationPair(v, accA, accB, perfA, perfB) ==
    IF accA = Unreadable \/ accB = Unreadable
    THEN [metrics |-> [visualSimilarity |-> v,
                       accessibilityComparison |-> NoScores,
                       performanceComparison |-> NoScores],
          overallSimilarity |-> Undefined, error |-> TRUE]
    ELSE IF perfA = Unreadable \/ perfB = Unreadable
    THEN [metrics |-> [visualSimilarity |-> v,
                       accessibilityComparison |-> ScoreComparison(accA, accB),
                       performanceComparison |-> NoScores],
          overallSimilarity |-> Undefined, error |-> TRUE]
    ELSE [metrics |-> Metrics(v, accA, accB, perfA, perfB),
          overallSimilarity |-> calculateOverallSimilarity(
                                    Metrics(v, accA, accB, perfA, perfB)),
          error |-> FALSE]

\* One pass of the loop of generateVariationComparison: compareVariationPair
\* and comparisons.push.
CompareVariationPair(v, accA, accB, perfA, perfB) ==
    /\ comparison.pc = "comparing"
    /\ Len(comparison.comparisons) < MaxPairs
    /\ comparison' = [comparison EXCEPT
                        !.comparisons = Append(@, compareVariationPair(v, accA, accB,
                                                                       perfA, perfB))]
    /\ UNCHANGED similarity
    /\ UNCHANGED poolVars
    /\ UNCHANGED worktreeVars
    /\ UNCHANGED workflowVars

\* comp.metrics.overallSimilarity is a number.
IsNumber(c) == c.overallSimilarity # Undefined

RECURSIVE SumOverall(_)
\* comparisons.reduce((sum, comp) => sum + comp.metrics.overallSimilarity, 0)
\* of numbers.
SumOverall(cs) ==
    IF cs = <<>> THEN 0 ELSE Head(cs).overallSimilarity + SumOverall(Tail(cs))

\* The sum divided by comparisons.length: NaN when a similarity is
\* undefined, and 0 / 0 is NaN.
Mean(cs) ==
    IF Len(cs) = 0 \/ \E i \in DOMAIN cs : ~IsNumber(cs[i])
    THEN [num |-> 0, den |-> 0]
    ELSE [num |-> SumOverall(cs), den |-> Len(cs)]

\* The orders [...comparisons].sort((a, b) => b - a) can give, as sequences
\* of indices: by descending similarity, equal ones in the order of the
\* list; the comparator returns NaN for an undefined similarity, and the
\* order is then left to the implementation.
SortedOrders(cs) ==
    {s \in [DOMAIN cs -> DOMAIN cs] :
        /\ \A i, j \in DOMAIN cs : i # j => s[i] # s[j]
        /\ (\A i \in DOMAIN cs : IsNumber(cs[i])) =>
              \A i, j \in DOMAIN cs : i < j =>
                  \/ cs[s[i]].overallSimilarity > cs[s[j]].overallSimilarity
                  \/ /\ cs[s[i]].overallSimilarity = cs[s[j]].overallSimilarity
                     /\ s[i] < s[j]}

\* sorted[i - 1]: undefined, which is recorded as null, outside the array.
Pick(sorted, i) == IF i \in DOMAIN sorted THEN sorted[i] ELSE 0

\* comparisons.filter(c => lo < c.metrics.overallSimilarity <= hi).length; a
\* comparison with undefined is false.
CountBetween(cs, lo, hi) ==
    Cardinality({i \in DOMAIN cs :
        /\ IsNumber(cs[i])
        /\ cs[i].overallSimilarity > lo
        /\ cs[i].overallSimilarity <= hi})

\* An analyzeComparisons without the early return.
NoComparisonsNever(cs) == FALSE

\* comparisons.length === 0
NoComparisons(cs) == Len(cs) = 0

\* analyzeComparisons(comparisons), sorted being the order the sort gave.
\* The thresholds 0.8 and 0.6 are 320 and 240 400ths; no similarity is above
\* 4 or below -4.
analyzeComparisons(cs, sorted) ==
    IF NoComparisons(cs) THEN EmptyAnalysis(Len(cs))
    ELSE [totalComparisons |-> Len(cs),
          averageSimilarity |-> Mean(cs),
          mostSimilarPair |-> Pick(sorted, 1),
          mostDifferentPair |-> Pick(sorted, Len(sorted)),
          clusters |-> <<CountBetween(cs, 320, 4 * One),
                         CountBetween(cs, 240, 320),
                         CountBetween(cs, -4 * One - 1, 240)>>]

\* A threshold that the mean itself reaches.
VerySimilarAtLeast(avg) == avg.den > 0 /\ avg.num >= 360 * avg.den

\* analysis.averageSimilarity > 0.9; false for NaN.
VerySimilar(avg) == avg.den > 0 /\ avg.num > 360 * avg.den

\* analysis.averageSimilarity < 0.5; false for NaN.
QuiteDifferent(avg) == avg.den > 0 /\ avg.num < 200 * avg.den

\* generateRecommendations(analysis): the recommendations, by their first
\* words.
generateRecommendations(analysis) ==
    (IF VerySimilar(analysis.averageSimilarity)
     THEN <<"Variations are very similar", "Increase design variation scope">>
     ELSE IF QuiteDifferent(analysis.averageSimilarity)
     THEN <<"Variations are quite different", "Focus on the best-performing">>
     ELSE <<"Good variation diversity", "Consider A/B testing">>)
    \o (IF analysis.mostSimilarPair # 0 THEN <<"Most similar variations">> ELSE <<>>)
    \o (IF analysis.mostDifferentPair # 0 THEN <<"Most different variations">> ELSE <<>>)

\* generateVariationComparison after its loop: analyzeComparisons and
\* generateRecommendations.
AnalyzeComparisons ==
    /\ comparison.pc = "comparing"
    /\ \E sorted \in SortedOrders(comparison.comparisons) :
        LET analysis == analyzeComparisons(comparison.comparisons, sorted) IN
        comparison' = [comparison EXCEPT
                        !.pc = "done",
                        !.analysis = analysis,
                        !.recommendations = generateRecommendations(analysis)]
    /\ UNCHANGED similarity
    /\ UNCHANGED poolVars
    /\ UNCHANGED worktreeVars
    /\ UNCHANGED workflowVars

\* The comparison of variations: generateVariationComparison.
ComparisonNext ==
    \/ \E v \in VisualScores : \E accA \in ScoreInputs : \E accB \in ScoreInputs :
         \E perfA \in ScoreInputs : \E perfB \in ScoreInputs :
            CompareVariationPair(v, accA, accB, perfA, perfB)
    \/ AnalyzeComparisons

ComparisonSpec == Construct(MaxCapacity) /\ [][ComparisonNext]_vars


\* The lines of a stdout, by what the parsers make of them: a JSON object or
\* array ("jsonA", "jsonB": two different values), a line that starts with
\* '{' or '[' and is not JSON ("brace"), the lines parseStructuredOutput
\* recognises, and any other text.
LineKinds == {"jsonA", "jsonB", "brace", "screenshot", "report", "change", "error", "text"}

\* The stdouts given to parseClaudeOutput, as sequences of lines.
Stdouts == UNION {[1..n -> LineKinds] : n \in 0..MaxLines}

\* line.trim().startsWith('{') || line.trim().startsWith('[')
StartsWithBrace(line) == line \in {"jsonA", "jsonB", "brace"}

\* JSON.parse(line) returns: it throws for a line that is not JSON.
ParsesAsJson(line) == line \in {"jsonA", "jsonB"}

\* The indices of the lines of kind k, in ascending order:
\* output.screenshots, output.reports, output.changes, output.errors.
RECURSIVE Matches(_, _, _)
Matches(lines, k, i) ==
    IF i > Len(lines) THEN <<>>
    ELSE (IF lines[i] = k THEN <<i>> ELSE <<>>) \o Matches(lines, k, i + 1)

\* parseStructuredOutput(stdout)
parseStructuredOutput(lines) ==
    [kind |-> "structured",
     screenshots |-> Matches(lines, "screenshot", 1),
     reports |-> Matches(lines, "report", 1),
     changes |-> Matches(lines, "change", 1),
     errors |-> Matches(lines, "error", 1)]

\* jsonLines: the indices of the lines that start with '{' or '['.
jsonLines(lines) == {i \in DOMAIN lines : StartsWithBrace(lines[i])}

\* parseClaudeOutput(stdout): JSON.parse of the last of jsonLines; when there
\* is none or JSON.parse throws, parseStructuredOutput.
parseClaudeOutput(lines) ==
    LET js == jsonLines(lines)
        lastLine == CHOOSE i \in js : \A j \in js : j <= i
    IN  IF js # {} /\ ParsesAsJson(lines[lastLine])
        THEN [kind |-> "json", line |-> lastLine]
        ELSE parseStructuredOutput(lines)

\* The 'close' handler calls parseClaudeOutput(stdout), which returns.
ParseClaudeOutput(lines) ==
    /\ parse.pc = "idle"
    /\ parse' = [pc |-> "returned", stdout |-> lines, outputs |-> parseClaudeOutput(lines)]
    /\ UNCHANGED <<scan, validation, correction, agent>>
    /\ UNCHANGED poolVars
    /\ UNCHANGED worktreeVars
    /\ UNCHANGED comparisonVars

\* parseClaudeOutput as a function of stdout.
ParseNext == \E lines \in Stdouts : ParseClaudeOutput(lines)

ParseSpec == Construct(MaxCapacity) /\ [][ParseNext]_vars


\* The ports findAvailablePort(3000) probes: startPort up to, and without,
\* startPort + 100, scaled to ScanLength ports.
ScanRange == StartPort..(StartPort + ScanLength - 1)

\* The values of Math.floor(Math.random() * 1000), scaled as the range is:
\* ten times as many as there are ports probed.
RandomOffsets == 0..(10 * ScanLength - 1)

\* findAvailablePort(startPort) when netstat shows a line for the ports of
\* busy and Math.floor(Math.random() * 1000) is random: the first port of
\* the range for which the command fails, else startPort + random.
findAvailablePortAmong(busy, random) ==
    IF ScanRange \ busy # {}
    THEN Least(ScanRange \ busy)
    ELSE StartPort + random

\* A call of findAvailablePort returns.
FindAvailablePort(busy, random) ==
    /\ scan.pc = "idle"
    /\ scan' = [pc |-> "returned", busy |-> busy,
                port |-> findAvailablePortAmong(busy, random)]
    /\ UNCHANGED <<parse, validation, correction, agent>>
    /\ UNCHANGED poolVars
    /\ UNCHANGED worktreeVars
    /\ UNCHANGED comparisonVars

\* findAvailablePort as a function of the busy ports and of Math.random().
ScanNext ==
    \E busy \in SUBSET ScanRange : \E random \in RandomOffsets :
        FindAvailablePort(busy, random)

ScanSpec == Construct(MaxCapacity) /\ [][ScanNext]_vars


\* this.options.acceptanceCriteria of IterativeValidationWorkflow at its
\* defaults, the two fractions in hundredths.
acceptanceCriteria ==
    [visualAccuracy |-> 95, accessibilityScore |-> 90, performanceScore |-> 80,
     responsiveConsistency |-> 90]

\* iteration.scores as performValidationIteration can set them: visual and
\* responsive stay undefined when designSpecs has no mockups or no responsive
\* part, and every score that is set is at its criterion or below it.
IterationScores ==
    [visual : {Undefined, 95}, accessibility : {85, 90}, performance : {75, 80},
     responsive : {Undefined, 90}]

\* score >= criterion, which is false for undefined.
AtLeast(score, criterion) == score # Undefined /\ score >= criterion

\* A check that is content with one criterion.
checkConvergenceAny(scores) ==
    \/ AtLeast(scores.visual, acceptanceCriteria.visualAccuracy)
    \/ AtLeast(scores.accessibility, acceptanceCriteria.accessibilityScore)
    \/ AtLeast(scores.performance, acceptanceCriteria.performanceScore)
    \/ AtLeast(scores.responsive, acceptanceCriteria.responsiveConsistency)

\* checkConvergence(iteration)
checkConvergence(scores) ==
    /\ AtLeast(scores.visual, acceptanceCriteria.visualAccuracy)
    /\ AtLeast(scores.accessibility, acceptanceCriteria.accessibilityScore)
    /\ AtLeast(scores.performance, acceptanceCriteria.performanceScore)
    /\ AtLeast(scores.responsive, acceptanceCriteria.responsiveConsistency)

\* What validateAgainstSpecs returns from its catch block.
ValidationError == [kind |-> "error", success |-> FALSE, iterations |-> Undefined]

\* validateAgainstSpecs up to the while loop: navigateToUrl returns, or it
\* throws and the catch block returns the error.
ValidateAgainstSpecs(m, reached) ==
    /\ validation.pc = "idle"
    /\ validation' =
         [pc |-> IF reached THEN "loop" ELSE "returned",
          maxIterations |-> m, currentIteration |-> 0, converged |-> FALSE,
          iterations |-> <<>>, corrections |-> TRUE,
          result |-> IF reached THEN [kind |-> "none", success |-> FALSE,
                                      iterations |-> Undefined]
                     ELSE ValidationError]
    /\ UNCHANGED <<parse, scan, correction, agent>>
    /\ UNCHANGED poolVars
    /\ UNCHANGED worktreeVars
    /\ UNCHANGED comparisonVars

\* The condition of the while loop.
Continue(converged, n, m) == ~converged /\ n < m

\* One pass of the while loop, the loop condition being true:
\* performValidationIteration gives the scores, checkConvergence, and, when
\* it is false, generateCorrections and applyCorrectionSuggestions.  threw
\* names the call that throws, which ends the function in its catch block.
ValidationIteration(scores, corrections, threw) ==
    /\ validation.pc = "loop"
    /\ Continue(validation.converged, validation.currentIteration, validation.maxIterations)
    /\ LET n == validation.currentIteration + 1
           conv == checkConvergence(scores)
       IN  validation' =
             IF threw = "iteration"
             THEN [validation EXCEPT !.pc = "returned", !.currentIteration = n,
                                     !.result = ValidationError]
             ELSE IF conv
             THEN [validation EXCEPT !.currentIteration = n, !.converged = TRUE,
                                     !.iterations = Append(@, scores)]
             ELSE IF ~corrections
             THEN [validation EXCEPT !.pc = "report", !.currentIteration = n,
                                     !.iterations = Append(@, scores),
                                     !.corrections = FALSE]
             ELSE IF threw = "apply"
             THEN [validation EXCEPT !.pc = "returned", !.currentIteration = n,
                                     !.iterations = Append(@, scores),
                                     !.result = ValidationError]
             ELSE [validation EXCEPT !.currentIteration = n,
                                     !.iterations = Append(@, scores)]
    /\ UNCHANGED <<parse, scan, correction, agent>>
    /\ UNCHANGED poolVars
    /\ UNCHANGED worktreeVars
    /\ UNCHANGED comparisonVars

\* After the loop: generateIterativeReport and the return, or the catch
\* block when writing the report throws.
ValidationReport(written) ==
    /\ \/ validation.pc = "report"
       \/ /\ validation.pc = "loop"
          /\ ~Continue(validation.converged, validation.currentIteration,
                       validation.maxIterations)
    /\ validation' =
         [validation EXCEPT
            !.pc = "returned",
            !.result = IF written
                       THEN [kind |-> "report", success |-> validation.converged,
                             iterations |-> validation.currentIteration]
                       ELSE ValidationError]
    /\ UNCHANGED <<parse, scan, correction, agent>>
    /\ UNCHANGED poolVars
    /\ UNCHANGED worktreeVars
    /\ UNCHANGED comparisonVars

\* A call of validateAgainstSpecs.
ValidationNext ==
    \/ \E m \in 1..MaxIterations : \E reached \in BOOLEAN : ValidateAgainstSpecs(m, reached)
    \/ \E scores \in IterationScores : \E corrections \in BOOLEAN :
         \E threw \in {"none", "iteration", "apply"} :
            ValidationIteration(scores, corrections, threw)
    \/ \E written \in BOOLEAN : ValidationReport(written)

ValidationSpec == Construct(MaxCapacity) /\ [][ValidationNext]_vars


\* The results of applyCorrectionPlan, by their counts: totalCorrections and
\* applied.length.
PlanResults ==
    {r \in [totalCorrections : 1..MaxCorrections, applied : 0..MaxCorrections] :
        r.applied <= r.totalCorrections}

\* calculateImprovementScore(results), as a fraction.
calculateImprovementScore(results) ==
    IF results.totalCorrections > 0
    THEN [num |-> results.applied, den |-> results.totalCorrections]
    ELSE [num |-> 1, den |-> 1]

\* currentScore >= this.options.correctionThreshold, the threshold being 0.8.
ThresholdMet(score) == 10 * score.num >= 8 * score.den

\* currentScore <= lastScore
NoImprovement(score, lastScore) == score.num * lastScore.den <= lastScore.num * score.den

\* What executeIterativeFixes returns.
FixesResult(c) ==
    [kind |-> "returned", attempts |-> c.attempt, finalScore |-> c.lastScore,
     history |-> c.history]

\* executeIterativeFixes is called on a new agent whose
\* options.maxCorrectionAttempts is m, up to the while loop.
ExecuteIterativeFixes(m) ==
    /\ correction.pc = "idle"
    /\ correction' = [pc |-> "loop", maxCorrectionAttempts |-> m, attempt |-> 0,
                      lastScore |-> [num |-> 0, den |-> 1], history |-> <<>>,
                      performed |-> <<>>,
                      result |-> [kind |-> "none", attempts |-> 0,
                                  finalScore |-> [num |-> 0, den |-> 1],
                                  history |-> <<>>]]
    /\ UNCHANGED <<parse, scan, validation, agent>>
    /\ UNCHANGED poolVars
    /\ UNCHANGED worktreeVars
    /\ UNCHANGED comparisonVars

\* One pass of the while loop in which analyzeCorrectionNeeds finds no
\* correction: the break, and the return.
NoCorrectionsNeeded ==
    /\ correction.pc = "loop"
    /\ correction.attempt < correction.maxCorrectionAttempts
    /\ LET c == [correction EXCEPT !.attempt = @ + 1] IN
       correction' = [c EXCEPT !.pc = "returned", !.result = FixesResult(c)]
    /\ UNCHANGED <<parse, scan, validation, agent>>
    /\ UNCHANGED poolVars
    /\ UNCHANGED worktreeVars
    /\ UNCHANGED comparisonVars

\* One pass of the while loop in which applyCorrectionPlan returns results:
\* the loop ends when the threshold is met or the score did not improve, and
\* the function returns; else the attempt is recorded.  performed is the
\* history of the scores of the plans that were applied.
CorrectionAttempt(results) ==
    /\ correction.pc = "loop"
    /\ correction.attempt < correction.maxCorrectionAttempts
    /\ LET currentScore == calculateImprovementScore(results)
           c == [correction EXCEPT !.attempt = @ + 1,
                                   !.performed = Append(@, currentScore)]
       IN  correction' =
             IF ThresholdMet(currentScore) \/ NoImprovement(currentScore, c.lastScore)
             THEN [c EXCEPT !.pc = "returned", !.result = FixesResult(c)]
             ELSE [c EXCEPT !.lastScore = currentScore,
                            !.history = Append(@, [attempt |-> c.attempt,
                                                   score |-> currentScore])]
    /\ UNCHANGED <<parse, scan, validation, agent>>
    /\ UNCHANGED poolVars
    /\ UNCHANGED worktreeVars
    /\ UNCHANGED comparisonVars

\* The loop condition is false: the return.
FixesReturn ==
    /\ correction.pc = "loop"
    /\ correction.attempt >= correction.maxCorrectionAttempts
    /\ correction' = [correction EXCEPT !.pc = "returned",
                                        !.result = FixesResult(correction)]
    /\ UNCHANGED <<parse, scan, validation, agent>>
    /\ UNCHANGED poolVars
    /\ UNCHANGED worktreeVars
    /\ UNCHANGED comparisonVars

\* createProjectBackup throws in applyCorrectionPlan: executeIterativeFixes
\* throws.
FixesThrow ==
    /\ correction.pc = "loop"
    /\ correction.attempt < correction.maxCorrectionAttempts
    /\ correction' = [correction EXCEPT !.pc = "threw", !.attempt = @ + 1]
    /\ UNCHANGED <<parse, scan, validation, agent>>
    /\ UNCHANGED poolVars
    /\ UNCHANGED worktreeVars
    /\ UNCHANGED comparisonVars

\* A call of executeIterativeFixes.
FixesNext ==
    \/ \E m \in 1..MaxAttempts : ExecuteIterativeFixes(m)
    \/ NoCorrectionsNeeded
    \/ \E results \in PlanResults : CorrectionAttempt(results)
    \/ FixesReturn
    \/ FixesThrow

FixesSpec == Construct(MaxCapacity) /\ [][FixesNext]_vars


\* The files of the project the corrections are written to: the stylesheet
\* findBestCSSFile returns and the page findBestHTMLFile returns.
Files == {"css", "html"}

\* The values of Date.now() during a run.
Times == 0..MaxFixes

\* new SelfCorrectionAgent(), in a project whose files have their original
\* content.  The content of a file is the number of changes made to the
\* original; a backup path is a file and a timestamp, and backups is the
\* content of the backup files on disk, undefined where there is none.
NewAgent ==
    /\ agent.pc = "idle"
    /\ agent' = [pc |-> "active",
                 files |-> [f \in Files |-> 0],
                 backups |-> [b \in Files \X Times |-> Undefined],
                 backupPaths |-> <<>>,
                 appliedFixes |-> 0,
                 correctionHistory |-> 0,
                 now |-> 0,
                 modified |-> {}]
    /\ UNCHANGED <<parse, scan, validation, correction>>
    /\ UNCHANGED poolVars
    /\ UNCHANGED worktreeVars
    /\ UNCHANGED comparisonVars

\* createFileBackup(filePath) at time t, the disk being as in a:
\* fs.copyFileSync to filePath.backup.t, and backupPaths.push.
createFileBackup(a, f, t) ==
    [a EXCEPT !.backups[<<f, t>>] = a.files[f],
              !.backupPaths = Append(@, <<f, t>>)]

\* applyCSSCorrection and applyHTMLCorrection on file f: fs.writeFileSync of
\* the new content, which differs from the old one when changed, then
\* createFileBackup in the object that is returned.
applyCorrection(a, f, changed, t) ==
    createFileBackup([a EXCEPT !.files[f] = IF changed THEN @ + 1 ELSE @,
                               !.modified = @ \cup {f},
                               !.now = t],
                     f, t)

\* applyCorrectionPlan applies a css correction: applyCSSCorrection returns
\* success and the correction is pushed to appliedFixes.  later: Date.now()
\* has advanced since the last backup.
ApplyCSSCorrection(changed, later) ==
    /\ agent.pc = "active"
    /\ Len(agent.backupPaths) < MaxFixes
    /\ LET t == IF later THEN agent.now + 1 ELSE agent.now IN
       agent' = [applyCorrection(agent, "css", changed, t) EXCEPT !.appliedFixes = @ + 1]
    /\ UNCHANGED <<parse, scan, validation, correction>>
    /\ UNCHANGED poolVars
    /\ UNCHANGED worktreeVars
    /\ UNCHANGED comparisonVars

\* applyCorrectionPlan applies an html correction.
ApplyHTMLCorrection(changed, later) ==
    /\ agent.pc = "active"
    /\ Len(agent.backupPaths) < MaxFixes
    /\ LET t == IF later THEN agent.now + 1 ELSE agent.now IN
       agent' = [applyCorrection(agent, "html", changed, t) EXCEPT !.appliedFixes = @ + 1]
    /\ UNCHANGED <<parse, scan, validation, correction>>
    /\ UNCHANGED poolVars
    /\ UNCHANGED worktreeVars
    /\ UNCHANGED comparisonVars

\* executeIterativeFixes records an attempt: correctionHistory.push.
RecordAttempt ==
    /\ agent.pc = "active"
    /\ agent.correctionHistory < agent.appliedFixes
    /\ agent' = [agent EXCEPT !.correctionHistory = @ + 1]
    /\ UNCHANGED <<parse, scan, validation, correction>>
    /\ UNCHANGED poolVars
    /\ UNCHANGED worktreeVars
    /\ UNCHANGED comparisonVars

\* The loop of rollbackChanges over the backup paths, last to first: each
\* backup file is copied over the file it was made of.
RECURSIVE Restore(_, _, _)
Restore(files, backups, paths) ==
    IF paths = <<>> THEN files
    ELSE LET b == paths[Len(paths)] IN
         Restore(IF backups[b] # Undefined
                 THEN [files EXCEPT ![b[1]] = backups[b]] ELSE files,
                 backups, SubSeq(paths, 1, Len(paths) - 1))

\* rollbackChanges()
RollbackChanges ==
    /\ agent.pc = "active"
    /\ agent' = [agent EXCEPT
                    !.pc = "rolledBack",
                    !.files = Restore(agent.files, agent.backups, agent.backupPaths),
                    !.backupPaths = <<>>,
                    !.appliedFixes = 0,
                    !.correctionHistory = 0]
    /\ UNCHANGED <<parse, scan, validation, correction>>
    /\ UNCHANGED poolVars
    /\ UNCHANGED worktreeVars
    /\ UNCHANGED comparisonVars

\* A SelfCorrectionAgent: corrections, then the rollback.
AgentNext ==
    \/ NewAgent
    \/ \E changed \in BOOLEAN : \E later \in BOOLEAN : ApplyCSSCorrection(changed, later)
    \/ \E changed \in BOOLEAN : \E later \in BOOLEAN : ApplyHTMLCorrection(changed, later)
    \/ RecordAttempt
    \/ RollbackChanges

AgentSpec == Construct(MaxCapacity) /\ [][AgentNext]_vars

----
\* Tasks whose worker process was spawned and that have not reached a
\* terminal state.
Live == {t \in Tasks : pc[t] \in {"spawned", "running"} /\ proc[t] \in {"running", "termPending"}}

\* C1: at every instant the number of tasks whose worker process has been
\* spawned and that have not reached a terminal state is at most the capacity.
C1_AtMostCapacityRunning == Cardinality(Live) <= capacity

\* C2: once every task has resolved, completed + failed equals the number of
\* tasks and active is 0.
C2_CountersAfterAllResolved ==
    (\A t \in Tasks : Settled(t)) =>
        /\ processStats.completed + processStats.failed = NumTasks
        /\ processStats.active = 0

\* C3: every submitted task eventually reaches a terminal state, those that
\* wait for a slot behind workers that hang until their timeout included,
\* and a session ends with its report.
C3_EveryTaskTerminates ==
    <>[](/\ \A t \in Tasks : pc[t] = "idle" \/ Settled(t)
         /\ sessionPc # "running")

\* Every task has resolved, as many tasks as the pool has slots have hung
\* until their timeout, and a task that waited behind them was admitted.
C3_Witness ==
    /\ \A t \in Tasks : Settled(t)
    /\ Cardinality({t \in Tasks : result[t].kind = "timeout"}) >= capacity
    /\ \E i \in 1..Len(admitSeq) : result[admitSeq[i]].kind = "value"

\* C4: a task whose deadline elapsed ends in the status TimedOut and its
\* process is no longer running.
C4_TimedOutStatusAndProcessGone ==
    \A t \in Tasks : result[t].kind = "timeout" =>
        /\ status[t] = "timedout"
        /\ proc[t] \notin {"running", "termPending"}

\* C5: when the deadline of a task expires, no other task's process, status,
\* logs, result or position changes, and the only change to the pool is that
\* the entry of the task that timed out is removed.
C5_TimeoutIsLocal ==
    [][\A t \in Tasks :
        (result[t].kind # "timeout" /\ result'[t].kind = "timeout") =>
            /\ \A u \in Tasks \ {t} :
                /\ proc'[u] = proc[u]
                /\ status'[u] = status[u]
                /\ out'[u] = out[u]
                /\ result'[u] = result[u]
                /\ pc'[u] = pc[u]
                /\ timer'[u] = timer[u]
            /\ activeProcesses' = activeProcesses \ {t}
            /\ pollList' = pollList]_vars

\* A task timed out while another, which has logged output, is still running,
\* and the task that waited took the freed slot.
C5_Witness ==
    \E t, u \in Tasks :
        /\ t # u
        /\ result[t].kind = "timeout"
        /\ pc[u] = "running" /\ proc[u] = "running"
        /\ out[u].logs > 0
        /\ \E w \in Tasks \ {t, u} :
            /\ pc[w] = "running"
            /\ \E i \in 1..Len(admitSeq) : admitSeq[i] = w

\* C6 (its ordering clause): the tasks that waited for a slot are admitted in
\* the order in which they were submitted.
C6_WaitersAdmittedFifo ==
    \A i \in 1..Len(admitSeq) : admitSeq[i] = waitSeq[i]

\* C7: a worker that exits with code 0 while its task is awaited makes the
\* task completed, whatever its output holds; one that exits with another
\* code makes it failed, and the result carries the code and the captured
\* stderr; the counters count the tasks of each status.
C7_ExitHandling ==
    /\ \A t \in Tasks : result[t].kind = "value" =>
        /\ pc[t] = "fulfilled"
        /\ result[t].exitCode = "0" => status[t] = "completed"
        /\ result[t].exitCode # "0" =>
            /\ status[t] = "failed"
            /\ result[t].exitCode \in {"1", "null"}
            /\ result[t].stderr = out[t].stderr
    /\ processStats.completed = Cardinality({t \in Tasks : status[t] = "completed"})
    /\ processStats.failed = Cardinality({t \in Tasks : status[t] = "failed"})

\* A task completed with exit code 0 although its stdout held an "Error:"
\* line, and another failed with exit code 1.
C7_Witness ==
    \E t, u \in Tasks :
        /\ result[t].kind = "value" /\ result[t].exitCode = "0"
        /\ result[t].errors /\ status[t] = "completed"
        /\ result[u].kind = "value" /\ result[u].exitCode = "1"
        /\ status[u] = "failed"

\* C8: in the session results a variant's success flag is true exactly when
\* its task completed, and failedVariations counts the others.
C8_SuccessIffCompleted ==
    sessionPc = "reported" =>
        /\ \A t \in sessionTasks : sessionResults[t] <=> status[t] = "completed"
        /\ failedVariations = Cardinality({t \in sessionTasks : status[t] # "completed"})

\* C9: no task that was waiting for a slot when cleanup was called is
\* spawned afterwards.
C9_NoSpawnAfterCancel ==
    \A t \in waitingAtCancel : pc[t] = "waiting" /\ proc[t] = "none"

\* cleanup() has returned and every process it found registered has been
\* seen to end.
TerminationsObserved ==
    /\ cleanupPc = "done"
    /\ activeAtCancel # {}
    /\ \A t \in activeAtCancel : proc[t] = "closed"

\* C10: after cleanup is called mid-session, once the terminations have been
\* observed, failed = started - completed and active = 0.
C10_CountersAfterCancel ==
    TerminationsObserved =>
        /\ processStats.failed = processStats.started - processStats.completed
        /\ processStats.active = 0

\* The calls that have a git command that changes the repository in flight.
GitInFlight == {c \in Calls : c.pc \in GitPcs}

\* C11: at no time do two calls have a git command that changes the shared
\* repository (worktree add, checkout, merge, worktree remove, branch -D) in
\* flight.
C11_RepositoryOperationsExclusive ==
    \A c, d \in GitInFlight : c = d /\ CopiesIn(c, calls) = 1

\* C12: no two registered worktrees have been given the same port.
C12_PortsUniqueAmongLive ==
    \A n, m \in activeWorktrees : n # m => port[n] # port[m]

\* C14: when the provisioning of a session is over, the task of every variant
\* whose worktree was created and registered has been admitted, whether the
\* worktree of another variant could be created or not.
C14_ProvisioningFailureIsolated ==
    (sessionPc \in {"threw", "running"} /\ SessionCalls = {}) =>
        Cardinality(activeWorktrees) <= Cardinality(sessionTasks)

\* A create call that has passed `git worktree add`.
Added(c) == c.kind = "create" /\ c.pc \in {"setup", "devServer"}

\* C13: of the calls that create a worktree of the same name only one passes
\* `git worktree add`, and none does while a worktree of that name is
\* registered: a colliding creation fails and registers nothing.
C13_BranchNamesUniqueAmongLive ==
    \A c \in Calls : Added(c) =>
        /\ CopiesIn(c, calls) = 1
        /\ \A d \in Calls : (Added(d) /\ d.name = c.name) => d = c
        /\ c.pc = "setup" => ~Registered(c.name)

\* A createWorktree has just thrown because another call had created the
\* branch of the same name, and that call is past `git worktree add`.
C13_Witness ==
    /\ last.kind = "create" /\ last.pc = "threw"
    /\ last.name \in branches
    /\ \E c \in Calls : Added(c) /\ c.name = last.name

\* C15: a step in which a started task fails (spawn error, exit with another
\* code than 0, timeout) changes no other task; every task of a session is
\* launched or waits although instructions of another could not be built;
\* and the session throws only while it provisions.
C15_TaskErrorsStayLocal ==
    [][/\ \A t \in Tasks :
            (/\ pc[t] \in {"spawned", "spawnThrew", "running"}
             /\ result[t].kind = "none"
             /\ result'[t].kind # "none"
             /\ ~result'[t].success) =>
                \A u \in Tasks \ {t} :
                    /\ pc'[u] = pc[u]
                    /\ status'[u] = status[u]
                    /\ proc'[u] = proc[u]
                    /\ result'[u] = result[u]
                    /\ timer'[u] = timer[u]
       /\ (sessionPc = "idle" /\ sessionPc' = "running") =>
            \A t \in sessionTasks' : pc'[t] # "idle"
       /\ sessionPc' = "threw" => sessionPc \in {"provisioning", "threw"}]_vars

\* A session has returned its report: one of its tasks was rejected, another
\* exited with a code other than 0, and a third completed.
C15_Witness ==
    /\ sessionPc = "reported"
    /\ \E t, u, v \in sessionTasks :
        /\ pc[t] = "rejected"
        /\ result[u].kind = "value" /\ ~result[u].success
        /\ status[v] = "completed"

\* C16: a cleanupWorktree for a name that is not registered returns, without
\* a git command and without a change to the registries, the repository, the
\* disk or the dev servers; only for a registered name does it go on to
\* `git worktree remove`.
C16_DestroyIdempotent ==
    [][/\ \A c \in BagToSet(calls') :
            (/\ c.kind = "cleanup"
             /\ c.pc = "removing"
             /\ CopiesIn(c, calls') > CopiesIn(c, calls)) => c.name \in activeWorktrees
       /\ (last'.kind = "cleanup" /\ last'.noop) =>
            /\ last'.name \notin activeWorktrees
            /\ last'.pc = "returned"
            /\ UNCHANGED <<activeWorktrees, processRegistry, branches, dirs, port,
                           devServer, calls, destroyed>>]_vars

\* A cleanupWorktree has just returned for a worktree that was destroyed
\* before.
C16_Witness ==
    /\ last.kind = "cleanup" /\ last.noop /\ last.pc = "returned"
    /\ last.name \in destroyed

\* C17: when a worktree leaves the registry, neither its directory nor its
\* branch remains, and a createWorktree called later computes a name that
\* is not the name of a destroyed worktree, of a branch or of a directory:
\* its `git worktree add` does not collide with what was destroyed.
C17_DestroyedLeavesNothing ==
    [][/\ \A n \in activeWorktrees \ activeWorktrees' :
            n \notin dirs' /\ n \notin branches'
       /\ \A c \in BagToSet(calls') :
            (/\ c.kind = "create"
             /\ c.pc = "adding"
             /\ CopiesIn(c, calls') > CopiesIn(c, calls)) =>
                c.name \notin destroyed \cup branches \cup dirs]_vars

\* A worktree was destroyed and one with a later name is registered.
C17_Witness ==
    \E d \in destroyed : \E n \in activeWorktrees : d < n

\* C18: a cleanupWorktree never throws, whether it was called directly or by
\* cleanupAllWorktrees, and a mergeVariation whose merge succeeded returns
\* success whatever became of the cleanup.
C18_CleanupErrorsSwallowed ==
    /\ \A c \in Calls \cup {last} : c.kind = "cleanup" => c.pc # "threw"
    /\ (last.kind = "merge" /\ last.merged) => last.pc = "returned"
    /\ allPc # "threw"

\* A mergeVariation has just returned success although its cleanupWorktree
\* failed: the worktree is still registered.
C18_Witness ==
    /\ autoCleanup
    /\ last.kind = "merge" /\ last.merged /\ last.pc = "returned" /\ ~last.noop
    /\ Registered(last.name)

\* C19: a mergeVariation whose checkout or merge fails returns
\* { success: false } and leaves the registries, the branch and the
\* directory of the worktree as they were.
C19_MergeConflictReturned ==
    [][(/\ last'.kind = "merge"
        /\ ~last'.merged
        /\ \E c \in Calls :
            /\ c.pc \in {"checkout", "merging"}
            /\ CopiesIn(c, calls') < CopiesIn(c, calls)
            /\ last' = [c EXCEPT !.pc = last'.pc]) =>
            /\ last'.pc = "failure"
            /\ UNCHANGED <<activeWorktrees, processRegistry, branches, dirs>>]_vars

\* A mergeVariation has just returned { success: false } and the worktree is
\* registered, with its directory and its branch.
C19_Witness ==
    /\ last.kind = "merge" /\ last.pc = "failure" /\ ~last.merged
    /\ Registered(last.name)
    /\ last.name \in dirs /\ last.name \in branches

\* C20: when mergeVariation returns success and autoCleanup is set, the
\* worktree is in neither registry.
C20_MergedWorkspaceDestroyed ==
    (autoCleanup /\ last.kind = "merge" /\ last.pc = "returned") =>
        /\ last.name \notin activeWorktrees
        /\ last.name \notin processRegistry

\* C21: started = active + completed + failed, active is not negative, and
\* the number of entries of activeProcesses, which getStatus reports, is the
\* number of tasks whose status is starting or running.
C21_CountersConsistent ==
    /\ processStats.started =
         processStats.active + processStats.completed + processStats.failed
    /\ processStats.active >= 0
    /\ Cardinality(activeProcesses) =
         Cardinality({t \in Tasks : status[t] \in {"starting", "running"}})

\* The place of a status in the order of the task states.
Rank(s) ==
    IF s = "none" THEN 0
    ELSE IF s = "starting" THEN 1
    ELSE IF s = "running" THEN 2
    ELSE 3

\* C22: the status of a task only moves forward, from starting to running
\* and from running to completed or failed; a task whose process was spawned
\* does not leave starting for another status than running; and once the
\* status is completed or failed, no event of the process ('close' after a
\* timeout or after 'error', output) changes the status or a counter.
C22_StatusMovesForward ==
    [][\A t \in Tasks :
        /\ Rank(status'[t]) >= Rank(status[t])
        /\ (status[t] = "starting" /\ proc[t] # "none" /\ status'[t] # status[t]) =>
                status'[t] = "running"
        /\ Rank(status[t]) = 3 =>
            /\ status'[t] = status[t]
            /\ (proc'[t] # proc[t] \/ out'[t] # out[t]) =>
                    /\ processStats' = processStats
                    /\ activeProcesses' = activeProcesses
                    /\ result'[t] = result[t]]_vars

\* The 'close' event of a process was delivered after its task had failed:
\* by its timeout, and by its 'error' event.
C22_Witness ==
    \E t, u \in Tasks :
        /\ result[t].kind = "timeout" /\ proc[t] = "closed" /\ status[t] = "failed"
        /\ result[u].kind = "spawnError" /\ proc[u] = "closed" /\ status[u] = "failed"

\* The worktree named n is being removed, or was removed.
Removed(n) ==
    \/ \E c \in Calls : c.pc = "removing" /\ c.name = n
    \/ n \in destroyed
    \/ n \in activeWorktrees /\ n \notin dirs

\* C23: while the worker process of a task runs, the directory of the
\* worktree of the task is neither being removed nor removed.
C23_TaskNeverOutlivesWorkspace ==
    \A t \in Tasks :
        proc[t] \in {"running", "termPending"} => ~Removed(worktreeOf[t])

\* C24: no two tasks whose status is starting or running have the same
\* worktree.
C24_OneTaskPerWorkspace ==
    \A t, u \in Tasks :
        (/\ t # u
         /\ status[t] \in {"starting", "running"}
         /\ status[u] \in {"starting", "running"}) => worktreeOf[t] # worktreeOf[u]

\* C25: both variations of every pair that is compared have a task that
\* ended completed.
C25_ComparedOnlyIfCompleted ==
    \A p \in ComparedPairs : status[p[1]] = "completed" /\ status[p[2]] = "completed"

\* C26: for a visual similarity between 0 and 1 and scores between 0 and 100,
\* calculateOverallSimilarity returns 0.5 * visual
\* + 0.25 * (1 - |accA - accB| / 100) + 0.25 * (1 - |perfA - perfB| / 100),
\* which is between 0 and 1.  With the visual similarity in hundredths and
\* the result in 400ths, both sides are multiplied by 400.
C26_OverallSimilarityFormula ==
    similarity.overall # Undefined =>
        LET m == similarity.metrics
            a == m.accessibilityComparison
            p == m.performanceComparison
            da == IF a.variationA >= a.variationB THEN a.variationA - a.variationB
                  ELSE a.variationB - a.variationA
            dp == IF p.variationA >= p.variationB THEN p.variationA - p.variationB
                  ELSE p.variationB - p.variationA
        IN  /\ similarity.overall = 2 * m.visualSimilarity + (100 - da) + (100 - dp)
            /\ similarity.overall >= 0
            /\ similarity.overall <= 400

\* calculateOverallSimilarity has returned for a visual similarity strictly
\* between 0 and 1 and scores that differ in both dimensions.
C26_Witness ==
    /\ similarity.overall # Undefined
    /\ similarity.metrics.visualSimilarity \in 1..99
    /\ similarity.metrics.accessibilityComparison.variationA
         < similarity.metrics.accessibilityComparison.variationB
    /\ similarity.metrics.performanceComparison.variationA
         > similarity.metrics.performanceComparison.variationB

\* The comparisons of two variations with the same accessibility score, the
\* same performance score and a visual similarity of 1.0.
Identical ==
    {i \in DOMAIN comparison.comparisons :
        LET c == comparison.comparisons[i] IN
        /\ ~c.error
        /\ c.metrics.visualSimilarity = 100
        /\ c.metrics.accessibilityComparison.variationA
             = c.metrics.accessibilityComparison.variationB
        /\ c.metrics.performanceComparison.variationA
             = c.metrics.performanceComparison.variationB}

\* C27: compareVariationPair of two variations with the same accessibility
\* score, the same performance score and a visual similarity of 1.0 gives an
\* overall similarity of 1.0.
C27_IdenticalPairIsOne ==
    \A i \in Identical : comparison.comparisons[i].overallSimilarity = 400

\* compareVariationPair has returned for such a pair, without an error.
C27_Witness == Identical # {}

\* C28: analyzeComparisons of an empty list returns: the average similarity
\* is 0, there is no most similar and no most different pair, and there is
\* no bucket; generateRecommendations names no pair.
C28_EmptyAnalysis ==
    (comparison.pc # "comparing" /\ comparison.comparisons = <<>>) =>
        /\ comparison.pc = "done"
        /\ comparison.analysis.totalComparisons = 0
        /\ comparison.analysis.averageSimilarity = [num |-> 0, den |-> 1]
        /\ comparison.analysis.mostSimilarPair = 0
        /\ comparison.analysis.mostDifferentPair = 0
        /\ comparison.analysis.clusters = <<>>

\* analyzeComparisons has returned for an empty list.
C28_Witness == comparison.pc = "done" /\ comparison.comparisons = <<>>

\* The sum of the elements of a sequence of numbers.
RECURSIVE SumSeq(_)
SumSeq(q) == IF q = <<>> THEN 0 ELSE Head(q) + SumSeq(Tail(q))

\* C29: for a list of comparisons that is not empty, the counts of the three
\* buckets are those of the pairs above 0.8, above 0.6 up to 0.8, and up to
\* 0.6, every pair being in one of them; the most similar pair has the
\* largest and the most different pair the smallest similarity; and the
\* average is the mean of the similarities.
C29_ClusterAndRank ==
    (comparison.pc = "done" /\ comparison.comparisons # <<>>) =>
        LET cs == comparison.comparisons
            a == comparison.analysis
            ov(i) == cs[i].overallSimilarity
            High == {i \in DOMAIN cs : ov(i) # Undefined /\ 10 * ov(i) > 8 * 400}
            Low == {i \in DOMAIN cs : ov(i) # Undefined /\ 10 * ov(i) <= 6 * 400}
            Medium == {i \in DOMAIN cs : ov(i) # Undefined} \ (High \cup Low)
        IN  /\ a.clusters = <<Cardinality(High), Cardinality(Medium), Cardinality(Low)>>
            /\ SumSeq(a.clusters) = Len(cs)
            /\ a.mostSimilarPair \in DOMAIN cs
            /\ a.mostDifferentPair \in DOMAIN cs
            /\ \A i \in DOMAIN cs : ov(i) <= ov(a.mostSimilarPair)
            /\ \A i \in DOMAIN cs : ov(i) >= ov(a.mostDifferentPair)
            /\ a.averageSimilarity.den = Len(cs)
            /\ a.averageSimilarity.num = SumSeq([i \in DOMAIN cs |-> ov(i)])

\* C30: generateRecommendations gives the advice for variations that are too
\* similar exactly when the average is above 0.9, the advice for variations
\* that are too different exactly when it is below 0.5, and the neutral
\* summary otherwise; and it names the most similar and the most different
\* pair exactly when there is a comparison.
C30_Recommendations ==
    comparison.pc = "done" =>
        LET avg == comparison.analysis.averageSimilarity
            recs == comparison.recommendations
            Has(x) == \E i \in DOMAIN recs : recs[i] = x
            above == avg.den > 0 /\ 10 * avg.num > 9 * 400 * avg.den
            below == avg.den > 0 /\ 10 * avg.num < 5 * 400 * avg.den
        IN  /\ Has("Variations are very similar") <=> above
            /\ Has("Variations are quite different") <=> below
            /\ Has("Good variation diversity") <=> (~above /\ ~below)
            /\ Has("Most similar variations") <=> comparison.comparisons # <<>>
            /\ Has("Most different variations") <=> comparison.comparisons # <<>>

\* Recommendations were generated for an average of exactly 0.9, which is
\* not above the threshold.
C30_Witness ==
    /\ comparison.pc = "done"
    /\ comparison.analysis.averageSimilarity.den > 0
    /\ 10 * comparison.analysis.averageSimilarity.num
         = 9 * 400 * comparison.analysis.averageSimilarity.den
    /\ comparison.recommendations[1] = "Good variation diversity"

\* C31: when a line of stdout is a JSON object or array, parseClaudeOutput
\* returns the value of the last such line, also when a later line starts
\* with '{' or '[' and is not JSON; when no line is, it returns what
\* parseStructuredOutput extracts; and it returns in every case.
C31_LastValidJsonLine ==
    parse.pc # "idle" =>
        LET lines == parse.stdout
            valid == {i \in DOMAIN lines : lines[i] \in {"jsonA", "jsonB"}}
        IN  /\ parse.pc = "returned"
            /\ valid # {} =>
                 /\ parse.outputs.kind = "json"
                 /\ parse.outputs.line \in valid
                 /\ \A j \in valid : j <= parse.outputs.line
            /\ valid = {} => parse.outputs.kind = "structured"

\* C32: in the results of a session, the duration of every variation whose
\* task reached a terminal state is the task's endTime minus its startTime,
\* a number and not null, in whatever order the tasks ended.
C32_DurationReported ==
    sessionPc = "reported" =>
        \A t \in sessionTasks :
            status[t] \in {"completed", "failed"} => sessionDurations[t] = "number"

\* C33: findAvailablePort always returns a port: the lowest port of the
\* range that probes as free, and, when every port of the range probes as
\* busy, a port that is none of the ports it just found busy.
C33_PortAllocationNeverFails ==
    scan.pc # "idle" =>
        /\ scan.pc = "returned"
        /\ scan.port \notin scan.busy
        /\ \A p \in ScanRange \ scan.busy : scan.port <= p

\* C34: whenever no call of createWorktree or cleanupWorktree is in progress,
\* every worktree directory and every worktree branch that exists belongs to
\* a worktree registered in activeWorktrees; a createWorktree that throws
\* after `git worktree add` leaves neither behind.
C34_NoOrphanedWorktree ==
    (\A c \in Calls : c.pc \in Ended) => (dirs \cup branches) \subseteq activeWorktrees

\* C35: processStarted is emitted once for a spawned task, when it begins to
\* run; one terminal event, processCompleted or processError, follows, after
\* which the task stays as it is; and after its terminal event no chunk is
\* appended to the task's logs and no processProgress is emitted for it.
C35_EventOrdering ==
    [][\A t \in Tasks :
        /\ (pc'[t] = "running" /\ pc[t] # "running") => pc[t] = "spawned"
        /\ pc[t] \in {"fulfilled", "rejected"} =>
             /\ pc'[t] = pc[t]
             /\ status'[t] = status[t]
             /\ out'[t] = out[t]]_vars

\* C36: a pair whose comparison failed, and so has no overall similarity,
\* does not corrupt the analysis: for every list of comparisons the average
\* similarity is a number between 0 and 1, and the counts of the buckets and
\* the number of failed pairs add up to the number of pairs.
C36_FailedPairDoesNotCorrupt ==
    comparison.pc = "done" =>
        LET cs == comparison.comparisons
            a == comparison.analysis
            failed == {i \in DOMAIN cs : cs[i].error}
        IN  /\ a.averageSimilarity.den > 0
            /\ a.averageSimilarity.num >= 0
            /\ a.averageSimilarity.num <= 400 * a.averageSimilarity.den
            /\ SumSeq(a.clusters) + Cardinality(failed) = Len(cs)

\* The iteration scores that meet every acceptance criterion.
MeetsAll(scores) ==
    /\ scores.visual # Undefined /\ scores.visual >= 95
    /\ scores.accessibility >= 90
    /\ scores.performance >= 80
    /\ scores.responsive # Undefined /\ scores.responsive >= 90

C38_FixesResultReflectsAttempts ==
    correction.pc = "returned" =>
        LET r == correction.result
            done == correction.performed
        IN  /\ r.attempts <= correction.maxCorrectionAttempts
            /\ Len(done) <= r.attempts
            /\ done # <<>> => r.finalScore = done[Len(done)]
            /\ Len(r.history) = Len(done)
            /\ \A i \in DOMAIN r.history : r.history[i].score = done[i]

\* C39: after css and html corrections were applied and rollbackChanges was
\* called, every file that was modified has the content it had before the
\* first correction, and backupPaths, appliedFixes and correctionHistory are
\* empty.
C39_RollbackRoundTrip ==
    agent.pc = "rolledBack" =>
        /\ \A f \in agent.modified : agent.files[f] = 0
        /\ agent.backupPaths = <<>>
        /\ agent.appliedFixes = 0
        /\ agent.correctionHistory = 0

====
